---- MODULE Spec2Model ----
(***************************************************************************)
(* go-milter: one client session (ClientSession) talking to one server     *)
(* session (milterSession) over one transport.  The transport is a pair of *)
(* FIFO packet queues; the handler (Milter) and the MTA application that   *)
(* drives the client are the environment and choose nondeterministically.  *)
(***************************************************************************)
EXTENDS Integers, Sequences, FiniteSets, TLC

\* ------------------------------------------------------------------ bounds

\* number of client API calls issued in one session
MaxCmds == 3

\* packets the transport buffers in one direction before a write blocks
MaxBuffered == 4

\* ------------------------------------------------- vocabulary (message.go)

NUL == 0
MaxBodyChunk == 65535
clientProtocolVersion == 2
serverProtocolVersion == 2

CodeOptNeg == "O"
CodeMacro == "D"
CodeConn == "C"
CodeQuit == "Q"
CodeHelo == "H"
CodeMail == "M"
CodeRcpt == "R"
CodeHeader == "L"
CodeEOH == "N"
CodeBody == "B"
CodeEOB == "E"
CodeAbort == "A"
CodeData == "T"
CodeQuitNewConn == "K"

ActAccept == "a"
ActContinue == "c"
ActDiscard == "d"
ActReject == "r"
ActTempFail == "t"
ActReplyCode == "y"
ActSkip == "s"

ActAddRcpt == "+"
ActDelRcpt == "-"
ActReplBody == "b"
ActAddHeader == "h"
ActChangeHeader == "m"
ActInsertHeader == "i"
ActQuarantine == "q"
ActChangeFrom == "e"

\* the modify-action codes readModifyActs collects
ModifyActCodes ==
    {ActAddRcpt, ActDelRcpt, ActReplBody, ActChangeHeader, ActInsertHeader,
     ActAddHeader, ActChangeFrom, ActQuarantine}

\* the terminal action codes of the protocol
ActionCodes ==
    {ActAccept, ActContinue, ActDiscard, ActReject, ActTempFail, ActReplyCode, ActSkip}

\* OptAction bits; a mask is the set of its bits, & is \cap
OptActionBits ==
    {"OptAddHeader", "OptChangeBody", "OptAddRcpt", "OptRemoveRcpt",
     "OptChangeHeader", "OptQuarantine", "OptChangeFrom"}

\* OptProtocol bits; a mask is the set of its bits
OptProtocolBits ==
    {"OptNoConnect", "OptNoHelo", "OptNoMailFrom", "OptNoRcptTo", "OptNoBody",
     "OptNoHeaders", "OptNoEOH", "OptSkip", "OptNoHeaderReply", "OptNoConnReply",
     "OptNoHeloReply", "OptNoMailReply", "OptNoRcptReply", "OptNoDataReply",
     "OptNoUnknownReply", "OptNoEOHReply", "OptNoBodyReply"}

\* ------------------------------------------------------ C strings (bytes)

\* bytes are small integers; 0 is NUL
appendCString(dest, s) == dest \o s \o <<NUL>>

\* index of the first NUL of data, 0 when there is none
IndexNUL(data) ==
    IF \E i \in 1..Len(data) : data[i] = NUL
    THEN CHOOSE i \in 1..Len(data) : data[i] = NUL /\ \A j \in 1..(i - 1) : data[j] # NUL
    ELSE 0

readCString(data) ==
    IF IndexNUL(data) = 0 THEN data ELSE SubSeq(data, 1, IndexNUL(data) - 1)

\* strings.Trim(s, "\x00"): drop leading and trailing NULs
RECURSIVE TrimLeft(_)
TrimLeft(s) == IF s # <<>> /\ Head(s) = NUL THEN TrimLeft(Tail(s)) ELSE s

RECURSIVE TrimRight(_)
TrimRight(s) ==
    IF s # <<>> /\ s[Len(s)] = NUL THEN TrimRight(SubSeq(s, 1, Len(s) - 1)) ELSE s

Trim(s) == TrimRight(TrimLeft(s))

\* strings.Split(s, "\x00"): always at least one element
RECURSIVE Split(_)
Split(s) ==
    IF IndexNUL(s) = 0
    THEN <<s>>
    ELSE <<SubSeq(s, 1, IndexNUL(s) - 1)>> \o Split(SubSeq(s, IndexNUL(s) + 1, Len(s)))

decodeCStrings(data) == IF Len(data) = 0 THEN <<>> ELSE Split(Trim(data))

\* bytes.ReplaceAll(b, "\r\n", "\n")
RECURSIVE crlfToLF(_)
crlfToLF(b) ==
    IF Len(b) < 2
    THEN b
    ELSE IF b[1] = 13 /\ b[2] = 10
         THEN <<10>> \o crlfToLF(SubSeq(b, 3, Len(b)))
         ELSE <<b[1]>> \o crlfToLF(Tail(b))

\* binary.BigEndian u32 of a small index
BE32(n) == <<0, 0, n \div 256, n % 256>>

\* ------------------------------------------------------------- variables

VARIABLES
    \* configuration: Server{Actions, Protocol}, ClientOptions{ActionMask, ProtocolMask}
    server, opts,
    \* transport: packets in flight, client to server and server to client
    c2s, s2c,
    \* ClientSession: position of the caller, fields, last return value
    cpc, ActionOpts, ProtocolOpts, needAbort, modifyActs, ret,
    \* the BodyReadFrom call in progress: its reader and what it has sent; the
    \* chunk handed to the last BodyChunk call (history)
    reader, lastChunk,
    \* the MTA application: how far the current message has got
    stage,
    \* milterSession: position of the driver and fields
    spc, actions, protocol, headers, macros, backend,
    \* number of calls of the Server.NewMilter factory so far
    newMilterCalls,
    \* history: client API calls made, reply-bearing commands written by the
    \* client / read by the server, terminal actions read by the client, the
    \* last callback invocation, the last packet the client consumed, what the
    \* handler has done so far
    cmds, cSeq, sSeq, cTerm, cb, lastRead, hist,
    \* Server: its listeners and closed fields, the Serve calls (one per
    \* listener) and the Close call
    listeners, closed, serving, closing,
    \* a byte stream with the packets written to it and read from it, and a
    \* buffer of C strings with the strings appended to it and decoded from it
    wire, codec,
    \* the session of a second accepted connection while its goroutine is
    \* not the one that runs
    parked

vars ==
    <<server, opts, c2s, s2c, cpc, ActionOpts, ProtocolOpts, needAbort, modifyActs,
      ret, reader, lastChunk, stage, spc, actions, protocol, headers, macros, backend, newMilterCalls,
      cmds, cSeq, sSeq, cTerm, cb, lastRead, hist, listeners, closed, serving, closing,
      wire, codec, parked>>

clientVars ==
    <<cpc, ActionOpts, ProtocolOpts, needAbort, modifyActs, ret, reader, lastChunk, stage>>
serveVars == <<listeners, closed, serving, closing>>
pureVars == <<wire, codec, parked>>
sessionVars == <<spc, actions, protocol, headers, macros, backend, newMilterCalls>>
configVars == <<server, opts>>

\* everything but the Server's own fields
mainVars ==
    <<configVars, c2s, s2c, clientVars, sessionVars, cmds, cSeq, sSeq, cTerm, cb,
      lastRead, hist>>

\* -------------------------------------------------------------- packets

\* Message{Code, Data}
Message(code, data) == [code |-> code, data |-> data]

\* a packet on the server-to-client stream, tagged (history only) with the
\* number and code of the command being processed when it was written and
\* the callback that wrote it ("" for the driver's own WritePacket)
Tagged(msg, seq, cmd, by) ==
    [code |-> msg.code, data |-> msg.data, re |-> seq, cmd |-> cmd, by |-> by]

\* ------------------------------------------------------------- responses

\* Response: nil, an action byte, or a code with a payload
NilResponse == [code |-> "nil", data |-> <<>>]
NewResponse(code, data) == [code |-> code, data |-> data]
RespAccept == NewResponse(ActAccept, <<>>)
RespContinue == NewResponse(ActContinue, <<>>)
RespDiscard == NewResponse(ActDiscard, <<>>)
RespReject == NewResponse(ActReject, <<>>)
RespTempFail == NewResponse(ActTempFail, <<>>)
RespSkip == NewResponse(ActSkip, <<>>)
\* ReplyCode{550, "a"}: "550 a\0"
RespReplyCode == NewResponse(ActReplyCode, <<53, 53, 48, 32, 97, NUL>>)

\* Response.Response(): the packet of a response
ResponseMessage(resp) == Message(resp.code, resp.data)

\* Response.Continue(): false exactly for the terminal actions other than continue
Continue(resp) == resp.code \notin (ActionCodes \ {ActContinue})

\* ---------------------------------------------------------------- maps

\* a Go map (nil reads as empty): a function on the set of its keys
EmptyMap == <<>>
MapPut(m, k, v) == [x \in (DOMAIN m) \cup {k} |-> IF x = k THEN v ELSE m[x]]

Upper(b) == IF b \in 97..122 THEN b - 32 ELSE b
Lower(b) == IF b \in 65..90 THEN b + 32 ELSE b

\* textproto.CanonicalMIMEHeaderKey: first letter and letters after '-' upper case
CanonicalMIMEHeaderKey(k) ==
    [i \in 1..Len(k) |-> IF i = 1 \/ k[i - 1] = 45 THEN Upper(k[i]) ELSE Lower(k[i])]

\* a collection that keeps the last value of a name only
MIMEHeaderAdd_set(h, key, value) == MapPut(h, CanonicalMIMEHeaderKey(key), <<value>>)

\* textproto.MIMEHeader.Add
MIMEHeaderAdd(h, key, value) ==
    LET k == CanonicalMIMEHeaderKey(key)
    IN  MapPut(h, k, (IF k \in DOMAIN h THEN h[k] ELSE <<>>) \o <<value>>)

\* the CodeMacro loop: m.macros[data[i]] = data[i+1] for i = 0, 2, ...
RECURSIVE MacroPairs(_, _)
MacroPairs(m, data) ==
    IF Len(data) < 2
    THEN m
    ELSE MacroPairs(MapPut(m, data[1], data[2]), SubSeq(data, 3, Len(data)))

\* strings.Trim(s, "<>")
RECURSIVE TrimAngle(_)
TrimAngle(s) ==
    IF s # <<>> /\ Head(s) \in {60, 62} THEN TrimAngle(Tail(s))
    ELSE IF s # <<>> /\ s[Len(s)] \in {60, 62} THEN TrimAngle(SubSeq(s, 1, Len(s) - 1))
    ELSE s

\* strings.TrimSuffix(s, null)
TrimSuffixNUL(s) ==
    IF s # <<>> /\ s[Len(s)] = NUL THEN SubSeq(s, 1, Len(s) - 1) ELSE s

\* ------------------------------------------------------------- Modifier

\* the Modifier methods: the packet each one hands to writePacket
AddRecipient(r) == NewResponse(ActAddRcpt, <<60>> \o r \o <<62, NUL>>)
DeleteRecipient(r) == NewResponse(ActDelRcpt, <<60>> \o r \o <<62, NUL>>)
ReplaceBody(body) == NewResponse(ActReplBody, crlfToLF(body))
AddHeader(name, value) ==
    NewResponse(ActAddHeader, name \o <<NUL>> \o crlfToLF(value) \o <<NUL>>)
Quarantine(reason) == NewResponse(ActQuarantine, reason \o <<NUL>>)
ChangeHeader(index, name, value) ==
    NewResponse(ActChangeHeader, BE32(index) \o name \o <<NUL>> \o crlfToLF(value) \o <<NUL>>)
InsertHeader(index, name, value) ==
    NewResponse(ActInsertHeader, BE32(index) \o name \o <<NUL>> \o crlfToLF(value) \o <<NUL>>)
ChangeFrom(value) == NewResponse(ActChangeFrom, value \o <<NUL>>)

\* newModifier: the session's macros and headers at the time of the call
newModifier(m, h) == [Macros |-> m, Headers |-> h]

\* ------------------------------------------------- the handler (Milter)

\* the outcome of one callback: the packets of the Modifier methods it calls,
\* in order, then the (Response, error) it returns
Outcome(resp, mods) == [resp |-> resp, err |-> FALSE, mods |-> mods]
ErrOutcome(mods) == [resp |-> NilResponse, err |-> TRUE, mods |-> mods]

CallbackNames ==
    {"Connect", "Helo", "MailFrom", "RcptTo", "Header", "Headers", "BodyChunk", "Body",
     "Abort"}

XBad == AddHeader(<<88>>, <<118>>)
Subject == ChangeHeader(1, <<83>>, <<42>>)
VeryBad == Quarantine(<<98>>)

\* handlers, as the outcomes each callback may have.  AllContinue is the mock
\* of the tests with every response set to continue
AllContinue ==
    [n \in CallbackNames |->
        IF n = "Abort" THEN {Outcome(NilResponse, <<>>)} ELSE {Outcome(RespContinue, <<>>)}]

\* NoOpMilter: every callback continues, Body accepts
NoOpMilter == [AllContinue EXCEPT !["Body"] = {Outcome(RespAccept, <<>>)}]

\* the handler of the usual-flow test: Body adds a header, changes a header,
\* quarantines and continues; or, as a variant, quarantines and accepts
UsualFlow ==
    [AllContinue EXCEPT !["Body"] = {Outcome(RespContinue, <<XBad, Subject, VeryBad>>),
                                     Outcome(RespAccept, <<VeryBad>>)}]

\* the handler of the abort-flow test: responses left unset are nil
AbortFlow ==
    [n \in CallbackNames |->
        IF n \in {"Connect", "Helo"} THEN {Outcome(RespContinue, <<>>)}
        ELSE {Outcome(NilResponse, <<>>)}]

\* a handler that ends messages early
Verdicts ==
    [AllContinue EXCEPT !["Helo"] = {Outcome(RespAccept, <<>>)},
                        !["RcptTo"] = {Outcome(RespReplyCode, <<>>)},
                        !["Header"] = {Outcome(RespContinue, <<>>), Outcome(RespAccept, <<>>)},
                        !["BodyChunk"] = {Outcome(RespSkip, <<>>)},
                        !["Body"] = {Outcome(RespAccept, <<>>)}]

\* a handler that cuts the body short: BodyChunk skips or rejects with a reply
\* code, Body quarantines and accepts
Chunked ==
    [AllContinue EXCEPT !["BodyChunk"] = {Outcome(RespSkip, <<>>),
                                          Outcome(RespReplyCode, <<>>)},
                        !["Body"] = {Outcome(RespAccept, <<VeryBad>>)}]

\* a handler whose callbacks fail
Failing ==
    [AllContinue EXCEPT !["Helo"] = {Outcome(RespContinue, <<>>), ErrOutcome(<<>>)},
                        !["Header"] = {ErrOutcome(<<XBad>>)},
                        !["Body"] = {Outcome(RespAccept, <<>>), ErrOutcome(<<>>)},
                        !["Abort"] = {Outcome(NilResponse, <<>>), ErrOutcome(<<>>)}]

\* a handler that uses the Modifier in every callback
Modifying ==
    [AllContinue EXCEPT !["Connect"] = {Outcome(RespContinue, <<XBad>>)},
                        !["Helo"] = {Outcome(RespContinue, <<>>),
                                     Outcome(RespContinue, <<VeryBad>>)},
                        !["Header"] = {Outcome(RespAccept, <<XBad>>)},
                        !["Body"] = {Outcome(RespContinue, <<XBad, Subject>>)},
                        !["Abort"] = {Outcome(NilResponse, <<XBad>>)}]

\* the Server and ClientOptions a session is set up with: the masks and the
\* handlers the factory makes
Plain ==
    [server |-> [Actions |-> {"OptAddHeader", "OptChangeHeader"}, Protocol |-> {}],
     opts |-> [ActionMask |-> {"OptAddHeader", "OptChangeHeader", "OptQuarantine"},
               ProtocolMask |-> {}]]

NoReplies ==
    [server |-> [Actions |-> {"OptAddHeader", "OptQuarantine"},
                 Protocol |-> {"OptNoConnReply", "OptNoHeloReply", "OptNoMailReply",
                               "OptNoRcptReply", "OptNoHeaderReply", "OptNoEOHReply",
                               "OptNoBodyReply"}],
     opts |-> [ActionMask |-> {"OptAddHeader"},
               ProtocolMask |-> {"OptNoHeloReply", "OptSkip"}]]

Suppressing ==
    [server |-> [Actions |-> {"OptChangeHeader", "OptQuarantine"},
                 Protocol |-> {"OptNoConnect", "OptNoHelo", "OptNoMailFrom", "OptNoRcptTo",
                               "OptNoHeaders", "OptNoEOH", "OptNoBody", "OptSkip"}],
     opts |-> [ActionMask |-> {},
               ProtocolMask |-> {"OptNoConnect", "OptNoHelo", "OptNoMailFrom", "OptNoRcptTo",
                                 "OptNoHeaders", "OptNoEOH", "OptNoBody", "OptSkip"}]]

\* both sides support the skip action
Skipping ==
    [server |-> [Actions |-> {"OptAddHeader"}, Protocol |-> {"OptSkip"}],
     opts |-> [ActionMask |-> {"OptAddHeader"}, ProtocolMask |-> {"OptSkip"}]]

Setup(cfg, handler) ==
    [server |-> [Actions |-> cfg.server.Actions, Protocol |-> cfg.server.Protocol,
                 NewMilter |-> handler],
     opts |-> cfg.opts]

Configs ==
    { Setup(Plain, h) : h \in {NoOpMilter, UsualFlow, AbortFlow, Verdicts, Failing, Modifying} }
    \cup { Setup(NoReplies, h) : h \in {UsualFlow, Verdicts} }
    \cup { Setup(Suppressing, NoOpMilter) }
    \cup { Setup(Skipping, Chunked) }

NoOutcome == [resp |-> NilResponse, err |-> FALSE, mods |-> <<>>]

\* ------------------------------------------------ milterSession.Process

NoCall ==
    [name |-> "none", backend |-> 0, mod |-> newModifier(EmptyMap, EmptyMap),
     args |-> <<>>, n |-> 0]

\* the result of Process: the response and error it returns, the session's
\* headers and macros when it returns, the callback it invoked and the packets
\* the callback wrote through the Modifier
Result(resp, err, h, m, call, out) ==
    [resp |-> resp, err |-> err, headers |-> h, macros |-> m, call |-> call, out |-> out]

\* m.backend.<name>(args..., newModifier(m)) and its return
Callback(name, args, o, h, m) ==
    Result(IF o.err THEN NilResponse ELSE o.resp,
           IF o.err THEN "handler" ELSE "nil",
           h, m,
           [name |-> name, backend |-> backend, mod |-> newModifier(m, h), args |-> args,
            n |-> 0],
           o.mods)

Drop(data, n) == SubSeq(data, n + 1, Len(data))

FamilyName(b) ==
    CASE b = 85 -> "unknown" [] b = 76 -> "unix" [] b = 52 -> "tcp4" [] b = 54 -> "tcp6"
      [] OTHER -> ""

\* the pieces of s between the bytes sep
RECURSIVE Fields(_, _)
Fields(s, sep) ==
    IF \A i \in 1..Len(s) : s[i] # sep
    THEN <<s>>
    ELSE LET i == CHOOSE k \in 1..Len(s) : s[k] = sep /\ \A j \in 1..(k - 1) : s[j] # sep
         IN  <<SubSeq(s, 1, i - 1)>> \o Fields(SubSeq(s, i + 1, Len(s)), sep)

\* a decimal field of a dotted quad: one to three digits, no leading zero, at
\* most 255; -1 when it is none
Octet(f) ==
    IF Len(f) \notin 1..3 \/ (\E i \in 1..Len(f) : ~(f[i] \in 48..57)) THEN -1
    ELSE IF Len(f) > 1 /\ f[1] = 48 THEN -1
    ELSE LET v == IF Len(f) = 1 THEN f[1] - 48
                  ELSE IF Len(f) = 2 THEN (f[1] - 48) * 10 + (f[2] - 48)
                  ELSE (f[1] - 48) * 100 + (f[2] - 48) * 10 + (f[3] - 48)
         IN  IF v > 255 THEN -1 ELSE v

\* net.ParseIP for the addresses used here: a dotted quad gives its four
\* bytes, "::" followed by one hexadecimal digit gives the sixteen bytes of
\* that IPv6 address, anything else (the empty string included) gives nil,
\* written <<>>
ParseIP(s) ==
    LET f == Fields(s, 46)
    IN  IF Len(f) = 4 /\ \A i \in 1..4 : Octet(f[i]) >= 0
        THEN [i \in 1..4 |-> Octet(f[i])]
        ELSE IF Len(s) = 3 /\ s[1] = 58 /\ s[2] = 58 /\ s[3] \in 48..57
        THEN [i \in 1..16 |-> IF i = 16 THEN s[3] - 48 ELSE 0]
        ELSE <<>>

ProcessConn(msg, o) ==
    LET hostname == readCString(msg.data)
        d1 == Drop(msg.data, Len(hostname) + 1)
    IN  IF Len(hostname) + 1 > Len(msg.data) \/ d1 = <<>>
        THEN Result(NilResponse, "panic", headers, macros, NoCall, <<>>)
        ELSE LET protocolFamily == d1[1]
                 d2 == Tail(d1)
                 inet == protocolFamily \in {52, 54}
             IN  IF inet /\ Len(d2) < 2
                 THEN Result(RespTempFail, "nil", headers, macros, NoCall, <<>>)
                 ELSE LET port == IF inet THEN d2[1] * 256 + d2[2] ELSE 0
                          d3 == IF inet THEN Drop(d2, 2) ELSE d2
                          address == readCString(d3)
                      IN  Callback("Connect",
                                   <<hostname, FamilyName(protocolFamily), port, ParseIP(address)>>,
                                   o, headers, macros)

ProcessMacro(msg) ==
    IF msg.data = <<>>
    THEN Result(NilResponse, "panic", headers, macros, NoCall, <<>>)
    ELSE LET data == decodeCStrings(Tail(msg.data))
             padded == IF Len(data) % 2 = 1 THEN Append(data, <<>>) ELSE data
         IN  Result(NilResponse, "nil", headers, MacroPairs(EmptyMap, padded), NoCall, <<>>)

\* a driver that does not supply the empty value
ProcessHeader_noEmptyValue(msg, o) ==
    LET headerData == decodeCStrings(msg.data)
    IN  IF Len(headerData) = 2
        THEN Callback("Header", <<headerData[1], headerData[2]>>, o,
                      MIMEHeaderAdd(headers, headerData[1], headerData[2]), macros)
        ELSE Result(RespContinue, "nil", headers, macros, NoCall, <<>>)

\* a driver that takes the first two strings of a longer payload
ProcessHeader_firstTwo(msg, o) ==
    LET decoded == decodeCStrings(msg.data)
        headerData == IF Len(decoded) = 1 THEN Append(decoded, <<>>) ELSE decoded
    IN  IF Len(headerData) >= 2
        THEN Callback("Header", <<headerData[1], headerData[2]>>, o,
                      MIMEHeaderAdd(headers, headerData[1], headerData[2]), macros)
        ELSE Result(RespContinue, "nil", headers, macros, NoCall, <<>>)

\* CodeHeader: a payload of one string is a header with an empty value
ProcessHeader(msg, o) ==
    LET decoded == decodeCStrings(msg.data)
        headerData == IF Len(decoded) = 1 THEN Append(decoded, <<>>) ELSE decoded
    IN  IF Len(headerData) = 2
        THEN Callback("Header", <<headerData[1], headerData[2]>>, o,
                      MIMEHeaderAdd(headers, headerData[1], headerData[2]), macros)
        ELSE Result(RespContinue, "nil", headers, macros, NoCall, <<>>)

\* an Abort that keeps the macros
ProcessAbort_keepsMacros(msg, o) ==
    LET r == Callback("Abort", <<>>, o, headers, macros)
    IN  Result(NilResponse, r.err, EmptyMap, macros, r.call, r.out)

\* an Abort that resets the session before it invokes the callback
ProcessAbort_clearsFirst(msg, o) ==
    LET r == Callback("Abort", <<>>, o, EmptyMap, EmptyMap)
    IN  Result(NilResponse, r.err, EmptyMap, EmptyMap, r.call, r.out)

\* CodeAbort: the deferred reset runs after the callback, whatever it returns
ProcessAbort(msg, o) ==
    LET r == Callback("Abort", <<>>, o, headers, macros)
    IN  Result(NilResponse, r.err, EmptyMap, EmptyMap, r.call, r.out)

\* a driver that narrows the masks of its reply by the client's offer
ProcessOptNeg_narrowing(msg) ==
    Result(NewResponse(CodeOptNeg,
                       <<serverProtocolVersion, actions \cap msg.data[2],
                         protocol \cap msg.data[3]>>),
           "nil", headers, macros, NoCall, <<>>)

\* CodeOptNeg: the request is ignored; the reply carries the session's masks
ProcessOptNeg(msg) ==
    Result(NewResponse(CodeOptNeg, <<serverProtocolVersion, actions, protocol>>),
           "nil", headers, macros, NoCall, <<>>)

\* a driver that answers CodeData with a verdict
ProcessData_accepts(msg) == Result(RespAccept, "nil", headers, macros, NoCall, <<>>)

\* a driver that sends nothing back for CodeData
ProcessData_silent(msg) == Result(NilResponse, "nil", headers, macros, NoCall, <<>>)

\* a code with no case of its own (CodeData): the switch falls through to the
\* final return of RespContinue
ProcessData(msg) == Result(RespContinue, "nil", headers, macros, NoCall, <<>>)

\* a driver that takes Quit for a command to continue after
ProcessQuit_goesOn(msg) == Result(RespContinue, "nil", headers, macros, NoCall, <<>>)

\* CodeQuit, and the default case of every code without a case of its own
\* (CodeQuitNewConn among them): errCloseSession
ProcessQuit(msg) == Result(NilResponse, "errCloseSession", headers, macros, NoCall, <<>>)

Process(msg, o) ==
    CASE msg.code = CodeAbort -> ProcessAbort(msg, o)
      [] msg.code = CodeBody -> Callback("BodyChunk", <<msg.data>>, o, headers, macros)
      [] msg.code = CodeConn -> ProcessConn(msg, o)
      [] msg.code = CodeMacro -> ProcessMacro(msg)
      [] msg.code = CodeEOB -> Callback("Body", <<>>, o, headers, macros)
      [] msg.code = CodeHelo ->
            Callback("Helo", <<TrimSuffixNUL(msg.data)>>, o, headers, macros)
      [] msg.code = CodeHeader -> ProcessHeader(msg, o)
      [] msg.code = CodeMail ->
            Callback("MailFrom", <<TrimAngle(readCString(msg.data))>>, o, headers, macros)
      [] msg.code = CodeEOH -> Callback("Headers", <<headers>>, o, headers, macros)
      [] msg.code = CodeOptNeg -> ProcessOptNeg(msg)
      [] msg.code = CodeQuit -> ProcessQuit(msg)
      [] msg.code = CodeRcpt ->
            Callback("RcptTo", <<TrimAngle(readCString(msg.data))>>, o, headers, macros)
      [] msg.code = CodeData -> ProcessData(msg)
      [] OTHER -> ProcessQuit(msg)

\* the codes for which Process invokes a handler callback
CallbackCodes ==
    {CodeAbort, CodeBody, CodeConn, CodeEOB, CodeHelo, CodeHeader, CodeMail, CodeEOH,
     CodeRcpt}

CallbackOf(code) ==
    CASE code = CodeAbort -> "Abort" [] code = CodeBody -> "BodyChunk"
      [] code = CodeConn -> "Connect" [] code = CodeEOB -> "Body"
      [] code = CodeHelo -> "Helo" [] code = CodeHeader -> "Header"
      [] code = CodeMail -> "MailFrom" [] code = CodeEOH -> "Headers"
      [] code = CodeRcpt -> "RcptTo" [] OTHER -> "none"

\* what the session's handler may do while msg is processed
Outcomes(msg) ==
    IF msg.code \in CallbackCodes THEN server.NewMilter[CallbackOf(msg.code)]
    ELSE {NoOutcome}

\* ------------------------------------------------------ the server side

\* the commands whose reply a client waits for unless it is suppressed
ReplyBearing ==
    {CodeConn, CodeHelo, CodeMail, CodeRcpt, CodeData, CodeHeader, CodeEOH, CodeBody,
     CodeEOB}

\* the callbacks that belong to a message (Mail through EndOfBody)
MessageCallbacks == {"MailFrom", "RcptTo", "Header", "Headers", "BodyChunk", "Body"}

Last(q) == q[Len(q)]

TagAll(q, seq, cmd, by) == [i \in 1..Len(q) |-> Tagged(q[i], seq, cmd, by)]

\* a factory that hands out one handler for all sessions
NewMilter_shared(calls) == 1

\* s.NewMilter(): the handler instance the factory returns on its call after
\* `calls` calls, a new one each time
NewMilter(calls) == calls + 1

\* Server.Serve: accept the dialled connection and start a session on it
Serve ==
    /\ spc = "listening"
    /\ cpc # "new"
    /\ spc' = "running"
    /\ actions' = server.Actions
    /\ protocol' = server.Protocol
    /\ newMilterCalls' = newMilterCalls + 1
    /\ backend' = NewMilter(newMilterCalls)
    /\ UNCHANGED <<headers, macros, configVars, serveVars, pureVars, clientVars, c2s, s2c, cmds, cSeq, sSeq,
                   cTerm, cb, lastRead, hist>>

\* a driver whose response overtakes the packets of the callback
Written_responseFirst(msg, r, seq, responded) ==
    (IF responded THEN <<Tagged(ResponseMessage(r.resp), seq, msg.code, "")>> ELSE <<>>)
        \o TagAll(r.out, seq, msg.code, r.call.name)

\* what one iteration puts on the transport: the packets the callback wrote
\* through the Modifier while Process ran, then the driver's WritePacket of
\* the response
Written(msg, r, seq, responded) ==
    TagAll(r.out, seq, msg.code, r.call.name)
        \o (IF responded THEN <<Tagged(ResponseMessage(r.resp), seq, msg.code, "")>>
            ELSE <<>>)

ReplaceBackend_never(resp) == FALSE

ReplaceBackend_always(resp) == TRUE

\* HandleMilterCommands installs a fresh handler after this response
ReplaceBackend(resp) == ~Continue(resp)

\* a driver that goes on reading after an error of Process
SessionAfter_ignoresError(err, respond, wok) ==
    IF respond => wok THEN "running" ELSE "closed"

\* the loop of HandleMilterCommands goes on unless Process returned an error or
\* the write of the response failed; on return the deferred m.conn.Close() runs
SessionAfter(err, respond, wok) ==
    IF err = "nil" /\ (respond => wok) THEN "running" ELSE "closed"

\* the <<name, value>> a Header packet carries: name NUL value NUL
HeaderOnWire(data) ==
    <<readCString(data), readCString(Drop(data, Len(readCString(data)) + 1))>>

\* the history of what the handler and the driver did, after one command
HistAfter(msg, r, responded) ==
    LET modified == r.out # <<>>
        ended == msg.code = CodeEOB /\ responded /\ r.resp.code # ActContinue
        reset == ended \/ msg.code = CodeAbort
        wellFormed == msg.code = CodeHeader /\ r.call.name = "Header"
    IN  [nilResp |-> hist.nilResp
                     \/ (r.call.name # "none" /\ r.call.name # "Abort"
                         /\ r.err = "nil" /\ r.resp = NilResponse),
         cbErr |-> hist.cbErr \/ (r.call.name # "none" /\ r.err # "nil"),
         modOutside |-> hist.modOutside \/ (modified /\ r.call.name # "Body"),
         bodyBackend |-> IF r.call.name = "Body" THEN r.call.backend ELSE hist.bodyBackend,
         bodyResp |-> IF r.call.name = "Body"
                      THEN (IF responded THEN r.resp.code ELSE "none")
                      ELSE hist.bodyResp,
         bodyMods |-> IF r.call.name = "Body" THEN r.out ELSE hist.bodyMods,
         msgHeaders |-> IF reset THEN EmptyMap
                        ELSE IF wellFormed
                             THEN MIMEHeaderAdd(hist.msgHeaders, r.call.args[1], r.call.args[2])
                             ELSE hist.msgHeaders,
         oldMacros |-> IF msg.code \in {CodeMacro, CodeAbort} THEN FALSE
                       ELSE IF ended THEN r.macros # EmptyMap
                       ELSE hist.oldMacros,
         aborted |-> IF msg.code = CodeAbort THEN TRUE
                     ELSE IF msg.code \in {CodeMacro, CodeHeader} THEN FALSE
                     ELSE hist.aborted,
         cleared |-> IF msg.code = CodeAbort
                     THEN macros # EmptyMap \/ headers # EmptyMap
                     ELSE hist.cleared,
         last |-> msg.code,
         inMessage |-> IF msg.code = CodeMail THEN TRUE
                       ELSE IF msg.code \in {CodeEOB, CodeAbort} THEN FALSE
                       ELSE hist.inMessage,
         arrived |-> IF msg.code = CodeAbort THEN <<>>
                     ELSE IF msg.code = CodeHeader /\ Len(decodeCStrings(msg.data)) \in {1, 2}
                     THEN Append(hist.arrived, HeaderOnWire(msg.data))
                     ELSE hist.arrived]

\* one iteration of the HandleMilterCommands loop: ReadPacket, Process (with
\* the callback it invokes), WritePacket of the response, handler replacement
HandleMilterCommands ==
    /\ spc = "running"
    /\ c2s # <<>>
    /\ LET msg == Head(c2s)
           seq == IF msg.code \in ReplyBearing THEN sSeq + 1 ELSE sSeq
       IN  \E o \in {x \in Outcomes(msg) : Len(s2c) + Len(x.mods) + 1 <= MaxBuffered} :
           \E wok \in (IF cpc = "closed" THEN BOOLEAN ELSE {TRUE}) :
             LET r == Process(msg, o)
                 respond == r.err = "nil" /\ r.resp # NilResponse
                 responded == respond /\ wok
                 called == r.call.name # "none"
             IN  /\ c2s' = Tail(c2s)
                 /\ sSeq' = seq
                 /\ headers' = r.headers
                 /\ macros' = r.macros
                 /\ s2c' = s2c \o Written(msg, r, seq, responded)
                 /\ spc' = SessionAfter(r.err, respond, wok)
                 /\ IF responded /\ ReplaceBackend(r.resp)
                    THEN /\ newMilterCalls' = newMilterCalls + 1
                         /\ backend' = NewMilter(newMilterCalls)
                    ELSE UNCHANGED <<newMilterCalls, backend>>
                 /\ cb' = IF called THEN [r.call EXCEPT !.n = cb.n + 1] ELSE cb
                 /\ hist' = HistAfter(msg, r, responded)
    /\ UNCHANGED <<actions, protocol, configVars, serveVars, pureVars, clientVars, cmds, cSeq, cTerm, lastRead>>

\* ReadPacket fails: the peer has closed the transport and nothing is left to read
ReadPacketEOF ==
    /\ spc = "running"
    /\ c2s = <<>>
    /\ cpc = "closed"
    /\ spc' = "closed"
    /\ UNCHANGED <<actions, protocol, headers, macros, backend, newMilterCalls, configVars, serveVars, pureVars,
                   clientVars, c2s, s2c, cmds, cSeq, sSeq, cTerm, cb, lastRead, hist>>

\* ------------------------------------------------------ the client side

\* what a ClientSession method returns: (*Action, []ModifyAction, error)
Return(op, code, smtpCode, smtpText, mods, err) ==
    [op |-> op, code |-> code, SMTPCode |-> smtpCode, SMTPText |-> smtpText,
     mods |-> mods, err |-> err]

\* &Action{Code: ActContinue}, nil
Synthetic(op) == Return(op, ActContinue, 0, <<>>, <<>>, "nil")
Failed(op, err) == Return(op, "none", 0, <<>>, <<>>, err)
Pending(op) == Return(op, "none", 0, <<>>, <<>>, "pending")

ProtocolOption(opt) == opt \in ProtocolOpts
ActionOption(opt) == opt \in ActionOpts

IsDigit(b) == b \in 48..57

\* parseAction: the Action and error for a packet
parseAction(op, msg, mods) ==
    IF msg.code \in {ActAccept, ActContinue, ActDiscard, ActReject, ActTempFail}
    THEN Return(op, msg.code, 0, <<>>, mods, "nil")
    ELSE IF msg.code = ActReplyCode
    THEN IF Len(msg.data) <= 4
         THEN Failed(op, "unexpected data length")
         ELSE IF ~(IsDigit(msg.data[1]) /\ IsDigit(msg.data[2]) /\ IsDigit(msg.data[3]))
         THEN Failed(op, "malformed SMTP code")
         ELSE Return(op, msg.code,
                     (msg.data[1] - 48) * 100 + (msg.data[2] - 48) * 10 + (msg.data[3] - 48),
                     readCString(Drop(msg.data, 4)), mods, "nil")
    ELSE Failed(op, "unexpected code")

ZeroModifyAction(code) ==
    [Code |-> code, Rcpt |-> <<>>, From |-> <<>>, FromArgs |-> <<>>, Body |-> <<>>,
     HeaderIndex |-> 0, HeaderName |-> <<>>, HeaderValue |-> <<>>, Reason |-> <<>>,
     err |-> "nil"]

\* a parser that takes the value for the name
parseHeaderAct_swapped(act, data) ==
    IF IndexNUL(data) = 0
    THEN [act EXCEPT !.err = "missing NUL delimiter"]
    ELSE [act EXCEPT !.HeaderValue = readCString(data),
                     !.HeaderName = readCString(Drop(data, IndexNUL(data)))]

\* the name/value part shared by ActAddHeader, ActChangeHeader, ActInsertHeader
parseHeaderAct(act, data) ==
    IF IndexNUL(data) = 0
    THEN [act EXCEPT !.err = "missing NUL delimiter"]
    ELSE [act EXCEPT !.HeaderName = readCString(data),
                     !.HeaderValue = readCString(Drop(data, IndexNUL(data)))]

\* parseModifyAct: the ModifyAction (or error) for a packet
parseModifyAct(msg) ==
    LET act == ZeroModifyAction(msg.code)
    IN  CASE msg.code \in {ActAddRcpt, ActDelRcpt} ->
                [act EXCEPT !.Rcpt = readCString(msg.data)]
          [] msg.code = ActQuarantine -> [act EXCEPT !.Reason = readCString(msg.data)]
          [] msg.code = ActReplBody -> [act EXCEPT !.Body = msg.data]
          [] msg.code = ActChangeFrom ->
                [act EXCEPT !.From = Head(Split(msg.data)),
                            !.FromArgs = Tail(Split(msg.data))]
          [] msg.code \in {ActChangeHeader, ActInsertHeader} ->
                IF Len(msg.data) < 4
                THEN [act EXCEPT !.err = "missing header index"]
                ELSE parseHeaderAct(
                        [act EXCEPT !.HeaderIndex = msg.data[3] * 256 + msg.data[4]],
                        Drop(msg.data, 4))
          [] msg.code = ActAddHeader -> parseHeaderAct(act, msg.data)
          [] OTHER -> [act EXCEPT !.err = "unexpected message code"]

\* the application goes on with a session (any call but Close) only while no
\* method has returned an error, and a write waits for room in the buffer
Usable == ret.err = "nil" /\ Len(c2s) < MaxBuffered

\* the lifecycle the application follows: Conn? Helo? then, per message,
\* Mail Rcpt* Data? Header* EndOfHeaders Body* EndOfBody, each step optional;
\* Macros at any time; End returns to before Mail, Abort to before Helo
StageOf(op) ==
    CASE op = "Conn" -> 1 [] op = "Helo" -> 2 [] op = "Mail" -> 3 [] op = "Rcpt" -> 4
      [] op = "Data" -> 5 [] op = "HeaderField" -> 6 [] op = "HeaderEnd" -> 7
      [] op = "BodyChunk" -> 8 [] op = "End" -> 9 [] op = "BodyReadFrom" -> 9
      [] op = "Header" -> 7
      [] OTHER -> 0

Allowed(op) ==
    IF op \in {"Rcpt", "HeaderField", "BodyChunk"} THEN stage <= StageOf(op)
    ELSE IF op \in {"Macros", "Abort"} THEN TRUE
    ELSE stage < StageOf(op)

StageAfter(op) ==
    CASE op \in {"End", "BodyReadFrom"} -> (IF stage > 2 THEN 2 ELSE stage)
      [] op = "Abort" -> (IF stage > 1 THEN 1 ELSE stage)
      [] op = "Macros" -> stage
      [] OTHER -> StageOf(op)

\* a write on the transport succeeds unless the peer has closed it; a write
\* to a closed transport may or may not report the failure
WriteOutcomes == IF spc = "closed" THEN BOOLEAN ELSE {TRUE}

\* Client.Session: dial, then negotiate up to its write of the OPTNEG packet
Session ==
    /\ cpc = "new"
    /\ cpc' = "negotiate"
    /\ c2s' = Append(c2s, Message(CodeOptNeg,
                    <<clientProtocolVersion, opts.ActionMask, opts.ProtocolMask>>))
    /\ UNCHANGED <<stage, ActionOpts, ProtocolOpts, needAbort, modifyActs, ret, reader, lastChunk, configVars, serveVars, pureVars,
                   sessionVars, s2c, cmds, cSeq, sSeq, cTerm, cb, lastRead, hist>>

\* the masks negotiate stores from the milter's OPTNEG reply
NegotiatedActions(offered, milterActionMask) == milterActionMask
NegotiatedProtocol(offered, milterProtoMask) == milterProtoMask

\* a negotiation that takes a milter of any version
Accepted_anyVersion(msg) == msg.code = CodeOptNeg /\ Len(msg.data) >= 3

\* the checks negotiate makes on the reply: its code, its size (three 32-bit
\* words: version, action mask, protocol mask), the milter's version
Accepted(msg) ==
    /\ msg.code = CodeOptNeg
    /\ Len(msg.data) >= 3
    /\ msg.data[1] >= clientProtocolVersion

\* ClientSession.negotiate from readPacket on: the checks and the stores
negotiate ==
    /\ cpc = "negotiate"
    /\ s2c # <<>>
    /\ LET msg == Head(s2c)
           ok == Accepted(msg)
       IN  /\ s2c' = Tail(s2c)
           /\ IF ok
              THEN /\ ActionOpts' = NegotiatedActions(opts.ActionMask, msg.data[2])
                   /\ ProtocolOpts' = NegotiatedProtocol(opts.ProtocolMask, msg.data[3])
                   /\ needAbort' = TRUE
                   /\ cpc' = "idle"
                   /\ ret' = Return("Session", "none", 0, <<>>, <<>>, "nil")
              ELSE /\ cpc' = "failed"
                   /\ ret' = Failed("Session", "negotiate")
                   /\ UNCHANGED <<ActionOpts, ProtocolOpts, needAbort>>
    /\ UNCHANGED <<stage, modifyActs, reader, lastChunk, configVars, serveVars, pureVars, sessionVars, c2s, cmds, cSeq, sSeq, cTerm, cb,
                   lastRead, hist>>

\* the application calls a method of the session: one more API call, at a
\* point of the lifecycle where the method is allowed
Call(op) ==
    /\ cpc = "idle"
    /\ Usable
    /\ Allowed(op)
    /\ stage' = StageAfter(op)
    /\ cmds < MaxCmds
    /\ cmds' = cmds + 1

\* a command method that puts its packet on the wire although the command is
\* suppressed
Send_writesAnyway(op, code, data, noCommand, noReply) ==
    \E wok \in WriteOutcomes :
      IF ~wok
      THEN /\ ret' = Failed(op, "write")
           /\ UNCHANGED <<c2s, cpc, cSeq>>
      ELSE /\ c2s' = Append(c2s, Message(code, data))
           /\ cSeq' = cSeq + 1
           /\ IF ~ProtocolOption(noReply)
              THEN cpc' = "readAction" /\ ret' = Pending(op)
              ELSE cpc' = cpc /\ ret' = Synthetic(op)

\* the body of a command method: the suppression check, writePacket, and
\* either the start of readAction or the synthetic continue when the reply is
\* suppressed
Send(op, code, data, noCommand, noReply) ==
    IF noCommand \in ProtocolOpts
    THEN /\ ret' = Synthetic(op)
         /\ UNCHANGED <<c2s, cpc, cSeq>>
    ELSE \E wok \in WriteOutcomes :
           IF ~wok
           THEN /\ ret' = Failed(op, "write")
                /\ UNCHANGED <<c2s, cpc, cSeq>>
           ELSE /\ c2s' = Append(c2s, Message(code, data))
                /\ cSeq' = cSeq + 1
                /\ IF ~ProtocolOption(noReply)
                   THEN cpc' = "readAction" /\ ret' = Pending(op)
                   ELSE cpc' = cpc /\ ret' = Synthetic(op)

\* a command method called by the application
Command(op, code, data, noCommand, noReply) ==
    /\ Call(op)
    /\ Send(op, code, data, noCommand, noReply)
    /\ UNCHANGED <<ActionOpts, ProtocolOpts, needAbort, modifyActs, reader, lastChunk, configVars,
                   serveVars, pureVars, sessionVars, s2c, sSeq, cTerm, cb, lastRead, hist>>

\* the arguments of Conn: hostname, family, port, addr
ConnInputs == { <<<<104>>, 52, 25, <<49>>>> }

appendUint16(dest, val) == dest \o <<val \div 256, val % 256>>

\* a Conn that writes the port for every family
ConnData_portForAll(hostname, family, port, addr) ==
    appendCString(appendUint16(Append(appendCString(<<>>, hostname), family), port), addr)

\* the payload Conn builds
ConnData(hostname, family, port, addr) ==
    LET d1 == Append(appendCString(<<>>, hostname), family)
        d2 == IF family \in {52, 54} THEN appendUint16(d1, port) ELSE d1
    IN  IF family # 85 THEN appendCString(d2, addr) ELSE d1

Conn ==
    \E in \in ConnInputs :
        Command("Conn", CodeConn, ConnData(in[1], in[2], in[3], in[4]),
                "OptNoConnect", "OptNoConnReply")

\* the arguments of Conn, in breadth: the hostnames "" and "h", the four
\* families, the ports 0, 25 and 65535, the addresses "", "x", "1.2.3.4"
\* and "::1"
ConnCases ==
    {<<h, f, p, a>> : h \in {<<>>, <<104>>}, f \in {85, 76, 52, 54}, p \in {0, 25, 65535},
                      a \in {<<>>, <<120>>, <<49, 46, 50, 46, 51, 46, 52>>, <<58, 58, 49>>}}

\* Conn with any of these arguments
ConnAny ==
    \E in \in ConnCases :
        Command("Conn", CodeConn, ConnData(in[1], in[2], in[3], in[4]),
                "OptNoConnect", "OptNoConnReply")

Helo ==
    \E helo \in {<<104>>} :
        Command("Helo", CodeHelo, appendCString(<<>>, helo), "OptNoHelo", "OptNoHeloReply")

Mail ==
    \E sender \in {<<102>>} :
        Command("Mail", CodeMail, appendCString(<<>>, <<60>> \o sender \o <<62>>),
                "OptNoMailFrom", "OptNoMailReply")

Rcpt ==
    \E rcpt \in {<<116>>} :
        Command("Rcpt", CodeRcpt, appendCString(<<>>, <<60>> \o rcpt \o <<62>>),
                "OptNoRcptTo", "OptNoRcptReply")

HeaderInputs == {<<<<97>>, <<118>>>>, <<<<66>>, <<>>>>}

HeaderField ==
    \E kv \in HeaderInputs :
        Command("HeaderField", CodeHeader, appendCString(appendCString(<<>>, kv[1]), kv[2]),
                "OptNoHeaders", "OptNoHeaderReply")

HeaderEnd ==
    Command("HeaderEnd", CodeEOH, <<>>, "OptNoEOH", "OptNoEOHReply")

\* a body chunk: n bytes of the body, starting at its byte number off (the
\* bytes themselves pass through the library untouched)
Bytes(off, n) == <<off, n>>
ByteLen(chunk) == chunk[2]

\* a size check that lets every chunk through
TooBig_never(chunk) == FALSE

\* len(chunk) > MaxBodyChunk
TooBig(chunk) == ByteLen(chunk) > MaxBodyChunk

\* the body of BodyChunk: the suppression check comes first, then the size
\* check, then the command
SendBodyChunk(chunk) ==
    IF ~ProtocolOption("OptNoBody") /\ TooBig(chunk)
    THEN /\ ret' = Failed("BodyChunk", "too big body chunk")
         /\ UNCHANGED <<c2s, cpc, cSeq>>
    ELSE Send("BodyChunk", CodeBody, chunk, "OptNoBody", "OptNoBodyReply")

\* the chunks the application hands to BodyChunk: one byte, the largest chunk
\* allowed plus one byte
ChunkInputs == {Bytes(0, 1), Bytes(0, MaxBodyChunk + 1)}

BodyChunk ==
    \E chunk \in ChunkInputs :
        /\ Call("BodyChunk")
        /\ SendBodyChunk(chunk)
        /\ lastChunk' = chunk
        /\ UNCHANGED <<ActionOpts, ProtocolOpts, needAbort, modifyActs, reader, configVars,
                       serveVars, pureVars, sessionVars, s2c, sSeq, cTerm, cb, lastRead, hist>>

\* where a reading method returns to: the BodyReadFrom call in progress, or
\* the application
Caller ==
    IF ~reader.active THEN "idle"
    ELSE IF reader.kind = "header" THEN "Header"
    ELSE "BodyReadFrom"

\* the history of the last terminal action packet the client consumed: its
\* tag, the number of the command the reading method had written, its
\* position among the terminal actions consumed, and whether any terminal
\* action consumed so far was not a continue
Consumed(msg) ==
    IF msg.code \in ActionCodes
    THEN [code |-> msg.code, re |-> msg.re, cmd |-> msg.cmd, want |-> cSeq, k |-> cTerm + 1,
          op |-> ret.op, verdict |-> lastRead.verdict \/ msg.code # ActContinue]
    ELSE lastRead

\* a reader that takes a progress packet for a reply
IsProgress_never(msg) == FALSE

\* if msg.Code == 'p' /* progress */ { continue }
IsProgress(msg) == msg.code = "p"

\* ClientSession.readAction: one readPacket of its loop and what follows it
readAction ==
    /\ cpc = "readAction"
    /\ s2c # <<>>
    /\ LET msg == Head(s2c)
       IN  /\ s2c' = Tail(s2c)
           /\ lastRead' = Consumed(msg)
           /\ cTerm' = IF msg.code \in ActionCodes THEN cTerm + 1 ELSE cTerm
           /\ IF IsProgress(msg)
              THEN UNCHANGED <<cpc, needAbort, ret>>
              ELSE /\ needAbort' = IF msg.code # ActContinue THEN FALSE ELSE needAbort
                   /\ ret' = parseAction(ret.op, msg, <<>>)
                   /\ cpc' = Caller
    /\ UNCHANGED <<stage, ActionOpts, ProtocolOpts, modifyActs, reader, lastChunk, configVars, serveVars, pureVars, sessionVars, c2s, cmds,
                   cSeq, sSeq, cb, hist>>

\* the body of End up to the start of readModifyActs
SendEnd ==
    \E wok \in WriteOutcomes :
      IF ~wok
      THEN /\ ret' = Failed("End", "write")
           /\ UNCHANGED <<c2s, cpc, cSeq, modifyActs>>
      ELSE /\ c2s' = Append(c2s, Message(CodeEOB, <<>>))
           /\ cSeq' = cSeq + 1
           /\ cpc' = "readModifyActs"
           /\ modifyActs' = <<>>
           /\ ret' = Pending("End")

\* ClientSession.End called by the application
End ==
    /\ Call("End")
    /\ SendEnd
    /\ UNCHANGED <<ActionOpts, ProtocolOpts, needAbort, reader, lastChunk, configVars, serveVars, pureVars,
                   sessionVars, s2c, sSeq, cTerm, cb, lastRead, hist>>

\* ClientSession.readModifyActs: one readPacket of its loop and what follows it
readModifyActs ==
    /\ cpc = "readModifyActs"
    /\ s2c # <<>>
    /\ LET msg == Head(s2c)
           act == parseModifyAct(msg)
       IN  /\ s2c' = Tail(s2c)
           /\ lastRead' = Consumed(msg)
           /\ cTerm' = IF msg.code \in ActionCodes THEN cTerm + 1 ELSE cTerm
           /\ IF IsProgress(msg)
              THEN UNCHANGED <<cpc, modifyActs, ret>>
              ELSE IF msg.code \in ModifyActCodes
              THEN IF act.err # "nil"
                   THEN /\ ret' = Failed("End", act.err)
                        /\ cpc' = Caller
                        /\ UNCHANGED modifyActs
                   ELSE /\ modifyActs' = Append(modifyActs, act)
                        /\ UNCHANGED <<cpc, ret>>
              ELSE /\ ret' = parseAction("End", msg, modifyActs)
                   /\ cpc' = Caller
                   /\ UNCHANGED modifyActs
    /\ UNCHANGED <<stage, ActionOpts, ProtocolOpts, needAbort, reader, lastChunk, configVars, serveVars, pureVars, sessionVars, c2s, cmds,
                   cSeq, sSeq, cb, hist>>

\* readPacket fails in negotiate, readAction or readModifyActs: the server has
\* closed the transport and nothing is left to read
readPacketError ==
    /\ cpc \in {"negotiate", "readAction", "readModifyActs"}
    /\ s2c = <<>>
    /\ spc = "closed"
    /\ cpc' = IF cpc = "negotiate" THEN "failed" ELSE Caller
    /\ ret' = Failed(IF cpc = "negotiate" THEN "Session" ELSE ret.op, "read")
    /\ UNCHANGED <<stage, ActionOpts, ProtocolOpts, needAbort, modifyActs, reader, lastChunk, configVars, serveVars, pureVars, sessionVars,
                   c2s, s2c, cmds, cSeq, sSeq, cTerm, cb, lastRead, hist>>

\* a method that writes one packet and reads nothing
Notify(op, code, data) ==
    /\ cpc = "idle"
    /\ Usable
    /\ Allowed(op)
    /\ stage' = StageAfter(op)
    /\ cmds < MaxCmds
    /\ cmds' = cmds + 1
    /\ \E wok \in WriteOutcomes :
         IF ~wok
         THEN ret' = Failed(op, "write") /\ UNCHANGED c2s
         ELSE /\ ret' = Return(op, "none", 0, <<>>, <<>>, "nil")
              /\ c2s' = Append(c2s, Message(code, data))
    /\ UNCHANGED <<cpc, ActionOpts, ProtocolOpts, needAbort, modifyActs, reader, lastChunk, configVars,
                   serveVars, pureVars, sessionVars, s2c, cSeq, sSeq, cTerm, cb, lastRead, hist>>

RECURSIVE appendCStrings(_, _)
appendCStrings(dest, kv) ==
    IF kv = <<>> THEN dest ELSE appendCStrings(appendCString(dest, Head(kv)), Tail(kv))

MacroInputs == {<<<<107>>>>, <<<<107>>, <<118>>>>}

\* ClientSession.Macros(code, kv...)
Macros ==
    \E kv \in MacroInputs :
        Notify("Macros", CodeMacro, appendCStrings(<<72>>, kv))

\* ClientSession.Abort: emits A, no reply
Abort == Notify("Abort", CodeAbort, <<>>)

\* the Data (T) command of an MTA: written like any reply-bearing command
Data == Command("Data", CodeData, <<>>, "OptNoData", "OptNoDataReply")

\* ClientSession.Close: Abort if needed, Quit, then close the transport; a
\* failed Quit write returns before the transport is closed
Close ==
    /\ cpc = "idle"
    /\ Len(c2s) + 2 <= MaxBuffered
    /\ \E wokA \in WriteOutcomes, wokQ \in WriteOutcomes :
         /\ c2s' = c2s \o (IF needAbort /\ wokA THEN <<Message(CodeAbort, <<>>)>> ELSE <<>>)
                       \o (IF wokQ THEN <<Message(CodeQuit, <<>>)>> ELSE <<>>)
         /\ cpc' = IF wokQ THEN "closed" ELSE "closeFailed"
         /\ ret' = IF wokQ THEN Return("Close", "none", 0, <<>>, <<>>, "nil")
                   ELSE Failed("Close", "write")
    /\ UNCHANGED <<stage, ActionOpts, ProtocolOpts, needAbort, modifyActs, reader, lastChunk, configVars,
                   serveVars, pureVars, sessionVars, s2c, cmds, cSeq, sSeq, cTerm, cb, lastRead, hist>>

\* after an error the application drops the transport without Close: the
\* server's next read ends in end-of-stream
Disconnect ==
    /\ cpc \in {"idle", "failed", "closeFailed"}
    /\ ret.err # "nil"
    /\ cpc' = "closed"
    /\ ret' = Failed("Disconnect", "transport lost")
    /\ UNCHANGED <<stage, ActionOpts, ProtocolOpts, needAbort, modifyActs, reader, lastChunk, configVars,
                   serveVars, pureVars, sessionVars, c2s, s2c, cmds, cSeq, sSeq, cTerm, cb, lastRead, hist>>

\* ---------------------------------------------------------- BodyReadFrom

\* the io.Reader values handed to BodyReadFrom, <<kind, size>>: an empty
\* bytes.Reader, a bytes.Reader one byte longer than the largest chunk, and a
\* one-byte reader that returns its last bytes together with io.EOF (as
\* iotest.DataErrReader does, and as the io.Reader contract allows)
Readers == {<<"bytes", 0>>, <<"bytes", MaxBodyChunk + 1>>, <<"dataErr", 1>>}

\* r.Read(buf) with rest bytes of content left: <<n, err>>
Read(kind, rest, buflen) ==
    LET n == IF rest < buflen THEN rest ELSE buflen
    IN  IF rest = 0 THEN <<0, "EOF">>
        ELSE IF kind = "dataErr" /\ n = rest THEN <<n, "EOF">>
        ELSE <<n, "nil">>

NoReader ==
    [active |-> FALSE, pc |-> "none", kind |-> "none", size |-> 0, off |-> 0, sent |-> <<>>,
     eob |-> 0]

\* a loop that goes on after any action
AfterChunk_alwaysLoops(r) ==
    IF r.err # "nil" THEN "error" ELSE "loop"

\* what the loop of BodyReadFrom does with the return of BodyChunk
AfterChunk(r) ==
    IF r.err # "nil" THEN "error"
    ELSE IF r.code = ActSkip THEN "break"
    ELSE IF r.code # ActContinue THEN "return"
    ELSE "loop"

\* the call of BodyReadFrom: buf := make([]byte, MaxBodyChunk)
BodyReadFrom ==
    \E r \in Readers :
        /\ Call("BodyReadFrom")
        /\ reader' = [active |-> TRUE, pc |-> "read", kind |-> r[1], size |-> r[2],
                      off |-> 0, sent |-> <<>>, eob |-> 0]
        /\ cpc' = "BodyReadFrom"
        /\ ret' = Pending("BodyReadFrom")
        /\ UNCHANGED <<ActionOpts, ProtocolOpts, needAbort, modifyActs, lastChunk, configVars, serveVars, pureVars,
                       sessionVars, c2s, s2c, cSeq, sSeq, cTerm, cb, lastRead, hist>>

\* BodyReadFrom goes on after the BodyChunk it called has returned
GoesOn == reader.pc = "chunk" => AfterChunk(ret) \in {"loop", "break"}

\* one pass of the loop of BodyReadFrom: r.Read and BodyChunk up to the start
\* of its readAction; or, at the end of the content or after a skip, End up to
\* the start of its readModifyActs
BodyReadFromNext ==
    /\ cpc = "BodyReadFrom"
    /\ reader.pc \in {"read", "chunk"}
    /\ GoesOn
    /\ Len(c2s) < MaxBuffered
    /\ LET rd == Read(reader.kind, reader.size - reader.off, MaxBodyChunk)
           n == rd[1]
           skipped == reader.pc = "chunk" /\ AfterChunk(ret) = "break"
       IN  IF skipped \/ rd[2] # "nil" \/ n = 0
           THEN /\ SendEnd
                /\ reader' = [reader EXCEPT !.pc = "end",
                                            !.eob = IF c2s' # c2s THEN @ + 1 ELSE @]
                /\ UNCHANGED lastChunk
           ELSE /\ SendBodyChunk(Bytes(reader.off, n))
                /\ reader' = [reader EXCEPT !.pc = "chunk", !.off = @ + n,
                                            !.sent = IF c2s' # c2s
                                                     THEN Append(@, Bytes(reader.off, n))
                                                     ELSE @]
                /\ lastChunk' = Bytes(reader.off, n)
                /\ UNCHANGED modifyActs
    /\ UNCHANGED <<stage, ActionOpts, ProtocolOpts, needAbort, configVars, serveVars, pureVars,
                   sessionVars, s2c, cmds, sSeq, cTerm, cb, lastRead, hist>>

\* BodyReadFrom returns: the error or the action of a BodyChunk, or what End
\* returned
BodyReadFromReturn ==
    /\ cpc = "BodyReadFrom"
    /\ reader.pc \in {"chunk", "end"}
    /\ reader.pc = "chunk" => AfterChunk(ret) \in {"error", "return"}
    /\ ret' = IF reader.pc = "end" THEN [ret EXCEPT !.op = "BodyReadFrom"]
              ELSE IF AfterChunk(ret) = "error" THEN Failed("BodyReadFrom", ret.err)
              ELSE [ret EXCEPT !.op = "BodyReadFrom", !.mods = <<>>]
    /\ cpc' = "idle"
    /\ reader' = NoReader
    /\ UNCHANGED <<stage, ActionOpts, ProtocolOpts, needAbort, modifyActs, lastChunk, configVars,
                   serveVars, pureVars, sessionVars, c2s, s2c, cmds, cSeq, sSeq, cTerm, cb, lastRead,
                   hist>>

\* ------------------------------------------------- ClientSession.Header

\* the fields of the header handed to Header, as hdr.Fields() yields them;
\* a call takes the first n of them
HeaderFields == <<<<<<97>>, <<118>>>>, <<<<66>>, <<>>>>>>

\* a loop that goes on after any action
AfterField_alwaysLoops(r) ==
    IF r.err # "nil" THEN "error" ELSE "loop"

\* what the loop of Header does with the return of HeaderField
AfterField(r) ==
    IF r.err # "nil" THEN "error"
    ELSE IF r.code # ActContinue THEN "return"
    ELSE "loop"

\* the call of Header
Header ==
    \E n \in 0..Len(HeaderFields) :
        /\ Call("Header")
        /\ reader' = [NoReader EXCEPT !.active = TRUE, !.pc = "next", !.kind = "header",
                                      !.size = n]
        /\ cpc' = "Header"
        /\ ret' = Pending("Header")
        /\ UNCHANGED <<ActionOpts, ProtocolOpts, needAbort, modifyActs, lastChunk, configVars,
                       serveVars, pureVars, sessionVars, c2s, s2c, cSeq, sSeq, cTerm, cb,
                       lastRead, hist>>

\* one pass of the loop of Header: HeaderField on the next field up to the
\* start of its readAction; or, after the last field, HeaderEnd up to the
\* start of its readAction
HeaderNext ==
    /\ cpc = "Header"
    /\ reader.pc \in {"next", "field"}
    /\ reader.pc = "field" => AfterField(ret) = "loop"
    /\ Len(c2s) < MaxBuffered
    /\ IF reader.off < reader.size
       THEN LET f == HeaderFields[reader.off + 1]
            IN  /\ Send("HeaderField", CodeHeader,
                        appendCString(appendCString(<<>>, f[1]), f[2]),
                        "OptNoHeaders", "OptNoHeaderReply")
                /\ reader' = [reader EXCEPT !.pc = "field", !.off = @ + 1]
       ELSE /\ Send("HeaderEnd", CodeEOH, <<>>, "OptNoEOH", "OptNoEOHReply")
            /\ reader' = [reader EXCEPT !.pc = "end", !.eob = @ + 1]
    /\ UNCHANGED <<stage, ActionOpts, ProtocolOpts, needAbort, modifyActs, lastChunk,
                   configVars, serveVars, pureVars, sessionVars, s2c, cmds, sSeq, cTerm, cb,
                   lastRead, hist>>

\* Header returns: the error or the action of a HeaderField, or what
\* HeaderEnd returned
HeaderReturn ==
    /\ cpc = "Header"
    /\ reader.pc \in {"field", "end"}
    /\ reader.pc = "field" => AfterField(ret) \in {"error", "return"}
    /\ ret' = [ret EXCEPT !.op = "Header"]
    /\ cpc' = "idle"
    /\ reader' = NoReader
    /\ UNCHANGED <<stage, ActionOpts, ProtocolOpts, needAbort, modifyActs, lastChunk, configVars,
                   serveVars, pureVars, sessionVars, c2s, s2c, cmds, cSeq, sSeq, cTerm, cb,
                   lastRead, hist>>

\* ---------------------------------------------------- a peer of any kind

\* the Connect payloads a peer sends: hostname "h", family '4' or '6', then
\* nothing, one byte, port 25 with no address, with the empty address, with
\* the address "x", with the addresses 1.2.3.4 and ::1
PeerConnData ==
    LET h4 == <<104, NUL, 52>>
        h6 == <<104, NUL, 54>>
    IN  {h4, h4 \o <<0>>, h4 \o <<0, 25>>, h4 \o <<0, 25, NUL>>, h4 \o <<0, 25, 120, NUL>>,
         h4 \o <<0, 25, 49, 46, 50, 46, 51, 46, 52, NUL>>,
         h6, h6 \o <<0, 25, NUL>>, h6 \o <<0, 25, 58, 58, 49, NUL>>}

\* the strings of the Macros packets a peer sends, each string NUL-terminated
\* on the wire: one name, a name and a value, two pairs, a name with the
\* empty value, the empty name with a value
PeerMacros ==
    {<<<<107>>>>, <<<<107>>, <<118>>>>, <<<<106>>, <<119>>, <<107>>, <<>>>>,
     <<<<>>, <<118>>>>}

\* the Header payloads a peer sends: a name with the empty value, nothing at
\* all, and three strings
PeerHeaderData ==
    {<<66, NUL, NUL>>, <<>>, <<97, NUL, 98, NUL, 99, NUL>>}

\* the packets a peer that is not this library's client may send: the
\* commands that end a session, a code the protocol does not have, and
\* well-formed and malformed commands
PeerPackets ==
    {Message(CodeOptNeg, <<clientProtocolVersion, {}, {}>>), Message(CodeQuit, <<>>),
     Message(CodeQuitNewConn, <<>>), Message("X", <<>>), Message(CodeHelo, <<104, NUL>>),
     Message(CodeEOH, <<>>)}
    \cup {Message(CodeHeader, d) : d \in PeerHeaderData}
    \cup {Message(CodeConn, d) : d \in PeerConnData}
    \cup {Message(CodeMacro, appendCStrings(<<72>>, kv)) : kv \in PeerMacros}

\* the peer dials the server
PeerDial ==
    /\ cpc = "new"
    /\ cpc' = "peer"
    /\ UNCHANGED <<stage, ActionOpts, ProtocolOpts, needAbort, modifyActs, ret, reader, lastChunk,
                   configVars, serveVars, pureVars, sessionVars, c2s, s2c, cmds, cSeq, sSeq, cTerm, cb,
                   lastRead, hist>>

\* the peer writes one packet
PeerWrite ==
    /\ cpc = "peer"
    /\ cmds < MaxCmds
    /\ Len(c2s) < MaxBuffered
    /\ cmds' = cmds + 1
    /\ \E msg \in PeerPackets : c2s' = Append(c2s, msg)
    /\ UNCHANGED <<cpc, stage, ActionOpts, ProtocolOpts, needAbort, modifyActs, ret, reader,
                   lastChunk, configVars, serveVars, pureVars, sessionVars, s2c, cSeq, sSeq, cTerm, cb,
                   lastRead, hist>>

\* the peer closes the transport: once the packets in flight are read, the
\* server's ReadPacket fails
PeerClose ==
    /\ cpc = "peer"
    /\ cpc' = "closed"
    /\ UNCHANGED <<stage, ActionOpts, ProtocolOpts, needAbort, modifyActs, ret, reader, lastChunk,
                   configVars, serveVars, pureVars, sessionVars, c2s, s2c, cmds, cSeq, sSeq, cTerm, cb,
                   lastRead, hist>>

\* ------------------------------------------- two sessions of one Server

\* the session of a connection that has not been dialled yet
NotAccepted ==
    [id |-> 2, c2s |-> <<>>, s2c |-> <<>>, cpc |-> "new", spc |-> "listening",
     actions |-> {}, protocol |-> {}, headers |-> EmptyMap, macros |-> EmptyMap,
     backend |-> 0, sSeq |-> 0]

\* the packets the peers of two sessions send: macros, a header, the end of
\* the body (which NoOpMilter accepts) and an abort
TwoPackets ==
    {Message(CodeMacro, appendCStrings(<<72>>, <<<<107>>, <<118>>>>)),
     Message(CodeHeader, <<66, NUL, NUL>>), Message(CodeEOB, <<>>), Message(CodeAbort, <<>>)}

\* the peer of the running session writes one packet
TwoWrite ==
    /\ cpc = "peer"
    /\ cmds < MaxCmds
    /\ Len(c2s) < MaxBuffered
    /\ cmds' = cmds + 1
    /\ \E msg \in TwoPackets : c2s' = Append(c2s, msg)
    /\ UNCHANGED <<cpc, stage, ActionOpts, ProtocolOpts, needAbort, modifyActs, ret, reader,
                   lastChunk, configVars, serveVars, pureVars, sessionVars, s2c, cSeq, sSeq, cTerm, cb,
                   lastRead, hist>>

\* go session.HandleMilterCommands(): the sessions are goroutines of their
\* own, and the scheduler moves from one to the other between any two steps.
\* The fields of the milterSession and its connection go with the goroutine;
\* the Server and its factory are the same for both.
Yield ==
    /\ parked' = [id |-> 3 - parked.id, c2s |-> c2s, s2c |-> s2c, cpc |-> cpc, spc |-> spc,
                  actions |-> actions, protocol |-> protocol, headers |-> headers,
                  macros |-> macros, backend |-> backend, sSeq |-> sSeq]
    /\ c2s' = parked.c2s
    /\ s2c' = parked.s2c
    /\ cpc' = parked.cpc
    /\ spc' = parked.spc
    /\ actions' = parked.actions
    /\ protocol' = parked.protocol
    /\ headers' = parked.headers
    /\ macros' = parked.macros
    /\ backend' = parked.backend
    /\ sSeq' = parked.sSeq
    /\ UNCHANGED <<stage, ActionOpts, ProtocolOpts, needAbort, modifyActs, ret, reader, lastChunk,
                   configVars, serveVars, wire, codec, newMilterCalls, cmds, cSeq, cTerm, cb,
                   lastRead, hist>>

\* --------------------------------------------- a milter of another make

\* the replies such a milter gives to OPTNEG: versions 2, 6 and 1 with masks,
\* a payload of two words instead of three, an empty payload, and a packet
\* with another code
NegReplies ==
    {Message(CodeOptNeg, <<2, {"OptAddHeader"}, {}>>),
     Message(CodeOptNeg, <<6, {"OptQuarantine"}, {"OptNoHeloReply"}>>),
     Message(CodeOptNeg, <<1, {"OptAddHeader"}, {}>>),
     Message(CodeOptNeg, <<2, {"OptAddHeader"}>>),
     Message(CodeOptNeg, <<>>),
     Message(ActContinue, <<6, {"OptAddHeader"}, {}>>)}

\* the milter reads the OPTNEG request and replies, or closes the connection
\* without a reply
MilterOptNeg ==
    /\ spc = "listening"
    /\ c2s # <<>>
    /\ Head(c2s).code = CodeOptNeg
    /\ c2s' = Tail(c2s)
    /\ \/ /\ spc' = "foreign"
          /\ \E reply \in NegReplies : s2c' = Append(s2c, Tagged(reply, 0, CodeOptNeg, ""))
       \/ /\ spc' = "closed"
          /\ s2c' = s2c
    /\ UNCHANGED <<actions, protocol, headers, macros, backend, newMilterCalls, configVars,
                   serveVars, pureVars, clientVars, cmds, cSeq, sSeq, cTerm, cb, lastRead, hist>>

\* the packets such a milter answers a command with: the action alone, or
\* progress packets before it and, at the end of a message, around a modify
\* action
MilterReplies(code) ==
    LET progress == Message("p", <<>>)
    IN  IF code = CodeEOB
        THEN {<<ResponseMessage(RespAccept)>>,
              <<progress, ResponseMessage(XBad), progress, ResponseMessage(RespAccept)>>}
        ELSE {<<ResponseMessage(RespContinue)>>,
              <<progress, ResponseMessage(RespContinue)>>,
              <<progress, progress, ResponseMessage(RespReject)>>}

\* the milter reads a command: it answers the commands that bear a reply
\* (unless it asked for none), and leaves on Quit
MilterCommand ==
    /\ spc = "foreign"
    /\ c2s # <<>>
    /\ LET msg == Head(c2s)
           seq == IF msg.code \in ReplyBearing THEN sSeq + 1 ELSE sSeq
           replies == msg.code \in ReplyBearing
                      /\ ~(msg.code = CodeHelo /\ "OptNoHeloReply" \in ProtocolOpts)
       IN  /\ c2s' = Tail(c2s)
           /\ sSeq' = seq
           /\ spc' = IF msg.code = CodeQuit THEN "closed" ELSE spc
           /\ IF replies
              THEN \E q \in MilterReplies(msg.code) :
                      /\ Len(s2c) + Len(q) <= MaxBuffered
                      /\ s2c' = s2c \o TagAll(q, seq, msg.code, "")
              ELSE s2c' = s2c
    /\ UNCHANGED <<actions, protocol, headers, macros, backend, newMilterCalls, configVars,
                   serveVars, pureVars, clientVars, cmds, cSeq, cTerm, cb, lastRead, hist>>

\* ------------------------------------------- C strings, encoded and decoded

\* the strings appended to one buffer
MaxStrings == 3

\* the strings: "", "a", "b", "ab"
Strings == {<<>>, <<97>>, <<98>>, <<97, 98>>}

\* a buffer under construction: the strings appended so far, the buffer, and
\* what decodeCStrings made of it
NoCodec == [pc |-> "building", ss |-> <<>>, buf |-> <<>>, out |-> <<>>]

\* buf = appendCString(buf, s)
CStringAppend ==
    /\ codec.pc = "building"
    /\ Len(codec.ss) < MaxStrings
    /\ \E str \in Strings :
         codec' = [codec EXCEPT !.ss = Append(@, str), !.buf = appendCString(@, str)]
    /\ UNCHANGED <<wire, parked, mainVars, serveVars>>

\* out = decodeCStrings(buf)
CStringDecode ==
    /\ codec.pc = "building"
    /\ codec' = [codec EXCEPT !.pc = "decoded", !.out = decodeCStrings(codec.buf)]
    /\ UNCHANGED <<wire, parked, mainVars, serveVars>>

\* ------------------------------------------------ writePacket, readPacket

\* packets written to one stream
MaxPackets == 2

\* a number of bytes that may exceed 32 bits: <<hi, lo>> stands for
\* hi * 65536 + lo, with lo below 65536
Num(k) == <<k \div 65536, k % 65536>>
Plus(a, b) == <<a[1] + b[1] + (a[2] + b[2]) \div 65536, (a[2] + b[2]) % 65536>>
Minus(a, b) ==
    IF a[2] >= b[2] THEN <<a[1] - b[1], a[2] - b[2]>>
    ELSE <<a[1] - b[1] - 1, a[2] + 65536 - b[2]>>
Leq(a, b) == a[1] < b[1] \/ (a[1] = b[1] /\ a[2] <= b[2])

\* uint32(n): the low 32 bits
uint32(n) == <<n[1] % 65536, n[2]>>

\* binary.BigEndian: the four bytes of a uint32, and back
PutUint32(u) == <<u[1] \div 256, u[1] % 256, u[2] \div 256, u[2] % 256>>
Uint32(b) == <<b[1] * 256 + b[2], b[3] * 256 + b[4]>>

\* byte strings of any length, as runs <<byte, count>> of equal bytes, no two
\* neighbours with the same byte
Cat(a, b) ==
    IF a = <<>> THEN b
    ELSE IF b = <<>> THEN a
    ELSE IF Last(a)[1] = Head(b)[1]
    THEN SubSeq(a, 1, Len(a) - 1) \o << <<Head(b)[1], Plus(Last(a)[2], Head(b)[2])>> >>
            \o Tail(b)
    ELSE a \o b

RECURSIVE FromBytes(_)
FromBytes(bs) ==
    IF bs = <<>> THEN <<>> ELSE Cat(<< <<Head(bs), Num(1)>> >>, FromBytes(Tail(bs)))

RECURSIVE ToBytes(_)
ToBytes(a) ==
    IF a = <<>> THEN <<>>
    ELSE IF Head(a)[2] = Num(1) THEN <<Head(a)[1]>> \o ToBytes(Tail(a))
    ELSE <<Head(a)[1]>> \o ToBytes(<< <<Head(a)[1], Minus(Head(a)[2], Num(1))>> >> \o Tail(a))

\* len(a)
RECURSIVE Size(_)
Size(a) == IF a = <<>> THEN Num(0) ELSE Plus(Head(a)[2], Size(Tail(a)))

\* io.ReadFull of n bytes: the bytes and what is left, or a failure when the
\* stream holds fewer
RECURSIVE Take(_, _)
Take(a, n) ==
    IF n = Num(0) THEN [ok |-> TRUE, taken |-> <<>>, rest |-> a]
    ELSE IF a = <<>> THEN [ok |-> FALSE, taken |-> <<>>, rest |-> <<>>]
    ELSE IF Leq(Head(a)[2], n)
    THEN LET t == Take(Tail(a), Minus(n, Head(a)[2]))
         IN  [ok |-> t.ok, taken |-> <<Head(a)>> \o t.taken, rest |-> t.rest]
    ELSE [ok |-> TRUE, taken |-> << <<Head(a)[1], n>> >>,
          rest |-> << <<Head(a)[1], Minus(Head(a)[2], n)>> >> \o Tail(a)]

\* a writer that leaves the code byte out of the length
writePacket_lengthOfData(msg) ==
    Cat(FromBytes(PutUint32(uint32(Size(msg.data))) \o <<msg.code>>), msg.data)

\* writePacket: the bytes it flushes to the connection, the length being
\* uint32(len(msg.Data) + 1)
writePacket(msg) ==
    Cat(FromBytes(PutUint32(uint32(Plus(Size(msg.data), Num(1)))) \o <<msg.code>>), msg.data)

\* readPacket: the message and the rest of the stream, or the error; a length
\* of 0 makes data[0] panic
readPacket(stream) ==
    LET h == Take(stream, Num(4))
        length == Uint32(ToBytes(h.taken))
        d == Take(h.rest, length)
    IN  IF ~h.ok \/ ~d.ok THEN [err |-> "EOF", msg |-> Message(0, <<>>), rest |-> stream]
        ELSE IF length = Num(0) THEN [err |-> "panic", msg |-> Message(0, <<>>), rest |-> stream]
        ELSE [err |-> "nil",
              msg |-> Message(Head(d.taken)[1], Take(d.taken, Num(1)).rest),
              rest |-> d.rest]

\* the payloads written: none, one NUL, four bytes that read as a length,
\* and 2^32 - 2 and 2^32 - 1 bytes 'x'
FramePayloads ==
    {<<>>, FromBytes(<<NUL>>), FromBytes(<<0, 0, 0, 1>>),
     << <<120, <<65535, 65534>> >> >>, << <<120, <<65535, 65535>> >> >>}

FramePackets == {Message(code, data) : code \in {0, 65}, data \in FramePayloads}

\* one connection: the bytes in flight, the packets written, the packets
\* read, the error of the reader, and the frames a peer wrote by itself
NoWire == [stream |-> <<>>, written |-> <<>>, read |-> <<>>, err |-> "nil", raw |-> 0]

\* writePacket(conn, msg)
FrameWrite ==
    /\ Len(wire.written) < MaxPackets
    /\ \E msg \in FramePackets :
         wire' = [wire EXCEPT !.stream = Cat(@, writePacket(msg)),
                              !.written = Append(@, msg)]
    /\ UNCHANGED <<codec, parked, mainVars, serveVars>>

\* a peer writes a frame whose length prefix is 0: four bytes, no code
FrameWriteZero ==
    /\ Len(wire.written) + wire.raw < MaxPackets
    /\ wire' = [wire EXCEPT !.stream = Cat(@, FromBytes(PutUint32(Num(0)))),
                            !.raw = @ + 1]
    /\ UNCHANGED <<codec, parked, mainVars, serveVars>>

\* readPacket(conn)
FrameRead ==
    /\ wire.err = "nil"
    /\ wire.stream # <<>>
    /\ LET r == readPacket(wire.stream)
       IN  wire' = IF r.err = "nil"
                   THEN [wire EXCEPT !.stream = r.rest, !.read = Append(@, r.msg)]
                   ELSE [wire EXCEPT !.err = r.err]
    /\ UNCHANGED <<codec, parked, mainVars, serveVars>>

\* ------------------------------------------------- Server.Serve and Close

\* the listeners Serve is called with, one call for each
MaxListeners == 2
Listeners == 1..MaxListeners

\* connections the listeners accept, all together
MaxConns == 2

\* a Serve call that has not been made: its position, the value of
\* s.listeners it loaded, whether its listener is open, what it returned, the
\* connections it accepted and the sessions that were started before Close
\* was called and are still running
NotServing ==
    [pc |-> "none", snap |-> <<>>, open |-> TRUE, result |-> "none", conns |-> 0,
     live |-> 0]

\* the Close call that has not been made: its position, the slice it ranges
\* over and the index in it, what it returned, and (history) the listeners
\* whose Serve was blocked in Accept when it was called, and whether a
\* session started before it was called has processed a frame since it
\* returned
NotClosing ==
    [pc |-> "none", snap |-> <<>>, i |-> 0, result |-> "none", blocked |-> {},
     late |-> FALSE]

\* the connections accepted
RECURSIVE ConnsUpTo(_)
ConnsUpTo(n) == IF n = 0 THEN 0 ELSE serving[n].conns + ConnsUpTo(n - 1)
Conns == ConnsUpTo(MaxListeners)

\* Serve(ln) is called: the deferred ln.Close() is registered and the append
\* loads s.listeners
ServeCall(ln) ==
    /\ serving[ln].pc = "none"
    /\ serving' = [serving EXCEPT ![ln].pc = "append", ![ln].snap = listeners]
    /\ UNCHANGED <<listeners, closed, closing, mainVars, pureVars>>

\* s.listeners = append(s.listeners, ln): the store of the slice loaded before
ServeAppend(ln) ==
    /\ serving[ln].pc = "append"
    /\ listeners' = Append(serving[ln].snap, ln)
    /\ serving' = [serving EXCEPT ![ln].pc = "accept"]
    /\ UNCHANGED <<closed, closing, mainVars, pureVars>>

\* ln.Accept() returns a connection: a session is started on it and the loop
\* goes on
ServeAccept(ln) ==
    /\ serving[ln].pc = "accept"
    /\ serving[ln].open
    /\ Conns < MaxConns
    /\ serving' = [serving EXCEPT ![ln].conns = @ + 1,
                                  ![ln].live = IF closing.pc = "none" THEN @ + 1 ELSE @]
    /\ UNCHANGED <<listeners, closed, closing, mainVars, pureVars>>

\* what Serve returns when ln.Accept() fails. The failure of a listener that
\* Close has closed is ordered after Close's store to s.closed; any other
\* failure reads s.closed without synchronisation and may miss a store made
\* by a Close running at the same time.
AcceptResults(ln) ==
    IF ~closed THEN {"accept error"}
    ELSE IF ~serving[ln].open THEN {"ErrServerClosed"}
    ELSE {"ErrServerClosed", "accept error"}

\* ln.Accept() fails, because the listener was closed or for a reason of its
\* own: Serve returns and the deferred ln.Close() runs
ServeAcceptError(ln) ==
    /\ serving[ln].pc = "accept"
    /\ \E res \in AcceptResults(ln) :
           serving' = [serving EXCEPT ![ln].pc = "returned", ![ln].result = res,
                                      ![ln].open = FALSE]
    /\ UNCHANGED <<listeners, closed, closing, mainVars, pureVars>>

\* Close is called: s.closed = true
ServerClose ==
    /\ closing.pc = "none"
    /\ closed' = TRUE
    /\ closing' = [closing EXCEPT !.pc = "range",
                                  !.blocked = {ln \in Listeners : serving[ln].pc = "accept"}]
    /\ UNCHANGED <<listeners, serving, mainVars, pureVars>>

\* the range statement evaluates s.listeners once
ServerCloseRange ==
    /\ closing.pc = "range"
    /\ closing' = [closing EXCEPT !.pc = "loop", !.snap = listeners, !.i = 1]
    /\ UNCHANGED <<listeners, closed, serving, mainVars, pureVars>>

\* one iteration of the loop: closing a listener that is already closed is an
\* error, and Close returns it at once
CloseStep(isOpen) == IF isOpen THEN "next" ELSE "return"

ServerCloseListener ==
    /\ closing.pc = "loop"
    /\ closing.i <= Len(closing.snap)
    /\ LET ln == closing.snap[closing.i] IN
        /\ serving' = [serving EXCEPT ![ln].open = FALSE]
        /\ closing' = IF CloseStep(serving[ln].open) = "next"
                      THEN [closing EXCEPT !.i = @ + 1]
                      ELSE [closing EXCEPT !.pc = "returned", !.result = "close error"]
    /\ UNCHANGED <<listeners, closed, mainVars, pureVars>>

\* the loop is over: return nil
ServerCloseReturn ==
    /\ closing.pc = "loop"
    /\ closing.i > Len(closing.snap)
    /\ closing' = [closing EXCEPT !.pc = "returned", !.result = "nil"]
    /\ UNCHANGED <<listeners, closed, serving, mainVars, pureVars>>

\* go session.HandleMilterCommands(), one iteration: the session of a
\* connection accepted from ln reads a frame its peer has sent and processes
\* it. The connection is the session's own: neither Serve's deferred
\* ln.Close() nor Close touches it.
SessionRead(ln) ==
    /\ serving[ln].live > 0
    /\ closing' = [closing EXCEPT !.late = @ \/ closing.pc = "returned"]
    /\ UNCHANGED <<listeners, closed, serving, mainVars, pureVars>>

\* the peer of a connection accepted from ln has closed it (or sent Quit):
\* the session's read fails and HandleMilterCommands returns
SessionEOF(ln) ==
    /\ serving[ln].live > 0
    /\ serving' = [serving EXCEPT ![ln].live = @ - 1]
    /\ UNCHANGED <<listeners, closed, closing, mainVars, pureVars>>

\* ------------------------------------------------------- specification

Init ==
    /\ \E cfg \in Configs : server = cfg.server /\ opts = cfg.opts
    /\ c2s = <<>>
    /\ s2c = <<>>
    /\ cpc = "new"
    /\ ActionOpts = {}
    /\ ProtocolOpts = {}
    /\ needAbort = FALSE
    /\ modifyActs = <<>>
    /\ ret = Return("none", "none", 0, <<>>, <<>>, "nil")
    /\ reader = NoReader
    /\ lastChunk = Bytes(0, 0)
    /\ stage = 0
    /\ spc = "listening"
    /\ actions = {}
    /\ protocol = {}
    /\ headers = EmptyMap
    /\ macros = EmptyMap
    /\ backend = 0
    /\ newMilterCalls = 0
    /\ cmds = 0
    /\ cSeq = 0
    /\ sSeq = 0
    /\ cTerm = 0
    /\ cb = NoCall
    /\ lastRead = [code |-> "none", re |-> 0, cmd |-> "none", want |-> 0, k |-> 0,
                   op |-> "none", verdict |-> FALSE]
    /\ hist = [nilResp |-> FALSE, cbErr |-> FALSE, modOutside |-> FALSE,
               bodyBackend |-> 0, bodyResp |-> "none", bodyMods |-> <<>>,
               msgHeaders |-> EmptyMap, oldMacros |-> FALSE, aborted |-> FALSE,
               cleared |-> FALSE, last |-> "none",
               inMessage |-> FALSE, arrived |-> <<>>]
    /\ listeners = <<>>
    /\ closed = FALSE
    /\ serving = [ln \in Listeners |-> NotServing]
    /\ closing = NotClosing
    /\ wire = NoWire
    /\ codec = NoCodec
    /\ parked = NotAccepted

Next ==
    \/ Session
    \/ negotiate
    \/ Conn
    \/ Helo
    \/ Mail
    \/ Rcpt
    \/ Data
    \/ HeaderField
    \/ HeaderEnd
    \/ BodyChunk
    \/ End
    \/ BodyReadFrom
    \/ BodyReadFromNext
    \/ BodyReadFromReturn
    \/ Macros
    \/ Abort
    \/ Close
    \/ Disconnect
    \/ readAction
    \/ readModifyActs
    \/ readPacketError
    \/ Serve
    \/ HandleMilterCommands
    \/ ReadPacketEOF

Spec == Init /\ [][Next]_vars

\* the Server's life cycle: Serve calls on several listeners and one Close
\* call, running concurrently, for a server of the plain configuration
InitServe ==
    /\ Init
    /\ server = Setup(Plain, NoOpMilter).server

NextServe ==
    \/ \E ln \in Listeners : ServeCall(ln)
    \/ \E ln \in Listeners : ServeAppend(ln)
    \/ \E ln \in Listeners : ServeAccept(ln)
    \/ \E ln \in Listeners : ServeAcceptError(ln)
    \/ \E ln \in Listeners : SessionRead(ln)
    \/ \E ln \in Listeners : SessionEOF(ln)
    \/ ServerClose
    \/ ServerCloseRange
    \/ ServerCloseListener
    \/ ServerCloseReturn

SpecServe == InitServe /\ [][NextServe]_vars

\* one server session and a peer of any kind
InitPeer ==
    /\ Init
    /\ server = Setup(Plain, NoOpMilter).server

NextPeer ==
    \/ PeerDial
    \/ PeerWrite
    \/ PeerClose
    \/ Serve
    \/ HandleMilterCommands
    \/ ReadPacketEOF

SpecPeer == InitPeer /\ [][NextPeer]_vars

\* two connections accepted by one Server, each with a peer of its own
NextTwo ==
    \/ PeerDial
    \/ TwoWrite
    \/ PeerClose
    \/ Serve
    \/ HandleMilterCommands
    \/ ReadPacketEOF
    \/ Yield

SpecTwo == InitPeer /\ [][NextTwo]_vars

\* one client session and a milter of another make
InitNeg ==
    /\ Init
    /\ server = Setup(Plain, NoOpMilter).server

NextNeg ==
    \/ Session
    \/ MilterOptNeg
    \/ negotiate
    \/ Conn
    \/ Helo
    \/ Mail
    \/ Macros
    \/ End
    \/ Close
    \/ Disconnect
    \/ readAction
    \/ readModifyActs
    \/ readPacketError
    \/ MilterCommand

SpecNeg == InitNeg /\ [][NextNeg]_vars

\* one session in which the client sends Conn with arguments of every kind
InitConn ==
    /\ Init
    /\ server = Setup(Plain, NoOpMilter).server

NextConn ==
    \/ Session
    \/ Serve
    \/ negotiate
    \/ ConnAny
    \/ HandleMilterCommands
    \/ readAction

SpecConn == InitConn /\ [][NextConn]_vars

\* packets written to one stream and read back from it
InitFrame ==
    /\ Init
    /\ server = Setup(Plain, NoOpMilter).server

NextFrame ==
    \/ FrameWrite
    \/ FrameRead

SpecFrame == InitFrame /\ [][NextFrame]_vars

\* one client session whose application calls Header
NextHeader ==
    \/ Session
    \/ Serve
    \/ negotiate
    \/ Header
    \/ HeaderNext
    \/ HeaderReturn
    \/ readAction
    \/ HandleMilterCommands

SpecHeader == Init /\ [][NextHeader]_vars

\* a stream that also carries frames of length 0
NextZero ==
    \/ FrameWrite
    \/ FrameWriteZero
    \/ FrameRead

SpecZero == InitFrame /\ [][NextZero]_vars

\* strings appended to one buffer and decoded from it
InitCStrings ==
    /\ Init
    /\ server = Setup(Plain, NoOpMilter).server

NextCStrings ==
    \/ CStringAppend
    \/ CStringDecode

SpecCStrings == InitCStrings /\ [][NextCStrings]_vars

\* ---------------------------------------------------------- properties

\* the NoXReply bit of the command with this code
NoReplyBit(code) ==
    CASE code = CodeConn -> "OptNoConnReply" [] code = CodeHelo -> "OptNoHeloReply"
      [] code = CodeMail -> "OptNoMailReply" [] code = CodeRcpt -> "OptNoRcptReply"
      [] code = CodeHeader -> "OptNoHeaderReply" [] code = CodeEOH -> "OptNoEOHReply"
      [] code = CodeBody -> "OptNoBodyReply" [] OTHER -> "none"

\* C1: reply suppression symmetry.  No reply packet of the driver is on the
\* transport for a command whose NoXReply bit is in the negotiated protocol
\* mask, and every terminal action the client consumes is the reply to the
\* command the consuming method has just written (no stale reply is taken for
\* the reply of a later command).
C1_ReplySuppressionSymmetry ==
    /\ \A i \in 1..Len(s2c) :
          s2c[i].by = "" => NoReplyBit(s2c[i].cmd) \notin ProtocolOpts
    /\ lastRead.code # "none" => lastRead.re = lastRead.want

\* C2: negotiation monotonicity on the client.  The session's effective
\* action mask is a subset of (client-offered AND server-offered), and so is
\* the effective protocol mask.
C2_NegotiationMonotonicity ==
    /\ ActionOpts \subseteq (opts.ActionMask \cap server.Actions)
    /\ ProtocolOpts \subseteq (opts.ProtocolMask \cap server.Protocol)

\* the server session has processed the client's OPTNEG packet
OptNegProcessed ==
    /\ spc # "listening"
    /\ \A i \in 1..Len(c2s) : c2s[i].code # CodeOptNeg

NoReplyBits ==
    {"OptNoHeaderReply", "OptNoConnReply", "OptNoHeloReply", "OptNoMailReply",
     "OptNoRcptReply", "OptNoDataReply", "OptNoUnknownReply", "OptNoEOHReply",
     "OptNoBodyReply"}

\* the terminal action packets on the server-to-client stream
TerminalsInFlight == {i \in 1..Len(s2c) : s2c[i].code \in ActionCodes}

\* C4: turn discipline and ordering.  In a session where no NoXReply bit is
\* negotiated and every handler callback has returned a non-nil response and
\* no error, the server has written exactly one terminal action packet for
\* each reply-bearing command it has read (as long as the client keeps the
\* transport open), and the k-th terminal action the client reads is the
\* reply to its k-th reply-bearing command.
C4_TurnDiscipline ==
    (ProtocolOpts \cap NoReplyBits = {} /\ ~hist.nilResp /\ ~hist.cbErr) =>
        /\ cpc # "closed" => cTerm + Cardinality(TerminalsInFlight) = sSeq
        /\ lastRead.code # "none" => lastRead.k = lastRead.re

\* in a session of that kind End has returned the third terminal action the
\* client has read, the reply to its third reply-bearing command
C4_Witness ==
    /\ ProtocolOpts \cap NoReplyBits = {} /\ ~hist.nilResp /\ ~hist.cbErr
    /\ lastRead.k = 3 /\ lastRead.re = 3 /\ lastRead.cmd = CodeEOB /\ lastRead.op = "End"
    /\ stage = 2 /\ cpc = "idle" /\ ret.err = "nil"

ActionBit(code) ==
    CASE code = ActAddHeader -> "OptAddHeader" [] code = ActReplBody -> "OptChangeBody"
      [] code = ActAddRcpt -> "OptAddRcpt" [] code = ActDelRcpt -> "OptRemoveRcpt"
      [] code \in {ActChangeHeader, ActInsertHeader} -> "OptChangeHeader"
      [] code = ActQuarantine -> "OptQuarantine" [] code = ActChangeFrom -> "OptChangeFrom"
      [] OTHER -> "none"

\* C6 as stated: every modify action End returns has its option bit in the
\* negotiated action mask.
C6_ActionMaskEnforcement ==
    \A i \in 1..Len(ret.mods) : ActionOption(ActionBit(ret.mods[i].Code))

\* the packet a Modifier method writes for a ModifyAction of the client
Emitted(act) ==
    CASE act.Code = ActAddHeader -> AddHeader(act.HeaderName, act.HeaderValue)
      [] act.Code = ActChangeHeader ->
            ChangeHeader(act.HeaderIndex, act.HeaderName, act.HeaderValue)
      [] act.Code = ActInsertHeader ->
            InsertHeader(act.HeaderIndex, act.HeaderName, act.HeaderValue)
      [] act.Code = ActQuarantine -> Quarantine(act.Reason)
      [] act.Code = ActReplBody -> ReplaceBody(act.Body)
      [] OTHER -> NilResponse

\* C6 amended: the action mask is not enforced.  When the handler uses the
\* Modifier in Body only and End returns the reply to its own EndOfBody, the
\* modify actions it returns are exactly the ones the Body callback emitted,
\* in order and with their contents, whatever the negotiated action mask.
C6_ModifyActionsDelivered ==
    (/\ ret.op = "End" /\ ret.err = "nil"
     /\ lastRead.cmd = CodeEOB /\ lastRead.re = lastRead.want
     /\ ~hist.modOutside) =>
        [i \in 1..Len(ret.mods) |-> Emitted(ret.mods[i])] = hist.bodyMods

\* End has returned a quarantine action although OptQuarantine is not in the
\* negotiated action mask
C6_Witness ==
    /\ ret.op = "End" /\ ret.err = "nil" /\ ret.code = ActAccept
    /\ Len(ret.mods) = 1 /\ ret.mods[1].Code = ActQuarantine
    /\ ret.mods[1].Reason = <<98>>
    /\ ~ActionOption("OptQuarantine")
    /\ lastRead.re = lastRead.want

\* this step is an iteration of HandleMilterCommands that invokes a callback
Invokes == cb'.n # cb.n

\* this step is an iteration of HandleMilterCommands that processes an Abort
ProcessesAbort == c2s # <<>> /\ Head(c2s).code = CodeAbort /\ c2s' = Tail(c2s)

\* this step is an iteration of HandleMilterCommands that writes a response
WritesResponse == Len(s2c') > Len(s2c) /\ Last(s2c').by = ""

\* C7: Abort reset.  When the server processes an Abort packet it empties the
\* session's macros and headers, keeps the handler instance and writes no
\* reply; every callback invoked after that and before the next Macros or
\* Header packet is handed a Modifier with empty macros and empty headers.
C7_AbortReset ==
    [][/\ ProcessesAbort =>
            /\ macros' = EmptyMap /\ headers' = EmptyMap
            /\ backend' = backend /\ newMilterCalls' = newMilterCalls
            /\ \A i \in (Len(s2c) + 1)..Len(s2c') : s2c'[i].by # ""
       /\ (hist.aborted /\ Invokes /\ Head(c2s).code # CodeHeader) =>
            cb'.mod = newModifier(EmptyMap, EmptyMap)
      ]_vars

\* an Abort has discarded macros or headers, and the Helo callback that
\* followed was invoked on the instance that received the Abort
C7_Witness ==
    /\ hist.aborted /\ hist.cleared
    /\ cb.name = "Helo" /\ cb.mod = newModifier(EmptyMap, EmptyMap)
    /\ cb.backend = 1 /\ newMilterCalls = 1

\* C8: handler replacement keeps the transport open.  When the driver writes
\* a response whose Continue() is false, for whatever command, it installs a
\* handler from a new call of the factory and goes on reading; when
\* Continue() is true the handler instance is unchanged; every callback is
\* delivered to the instance installed last.
C8_HandlerReplacement ==
    [][/\ WritesResponse =>
            IF ~Continue(NewResponse(Last(s2c').code, Last(s2c').data))
            THEN /\ newMilterCalls' = newMilterCalls + 1
                 /\ backend' = newMilterCalls'
                 /\ spc' = "running"
            ELSE backend' = backend /\ newMilterCalls' = newMilterCalls
       /\ Invokes => cb'.backend = backend
       /\ (~WritesResponse /\ spc # "listening") =>
            backend' = backend /\ newMilterCalls' = newMilterCalls
      ]_vars

\* before any EndOfBody, MailFrom is delivered to a second instance: the
\* response to an earlier command was not a continue
C8_Witness ==
    /\ cb.name = "MailFrom" /\ cb.backend = 2 /\ backend = 2
    /\ hist.bodyBackend = 0 /\ spc = "running"

\* C9 as stated: a callback of a message is never delivered to the instance
\* that received Body for the message before it, whatever the terminal
\* action of that EndOfBody.
C9_FreshHandlerPerMessage ==
    [][(Invokes /\ cb'.name \in MessageCallbacks /\ hist.bodyBackend # 0) =>
            cb'.backend # hist.bodyBackend]_vars

\* C9 amended: the handler is replaced after EndOfBody only when the response
\* has Continue() false.  Then no callback of a later message is delivered to
\* the instance that received Body; after a continue response to EndOfBody the
\* next callback is delivered to the same instance.
C9_FreshHandlerAfterVerdict ==
    [][/\ (/\ Invokes /\ cb'.name \in MessageCallbacks /\ hist.bodyBackend # 0
           /\ hist.bodyResp # "none" /\ ~Continue(NewResponse(hist.bodyResp, <<>>))) =>
              cb'.backend # hist.bodyBackend
       /\ (Invokes /\ cb.name = "Body" /\ hist.bodyResp = ActContinue) =>
              cb'.backend = hist.bodyBackend
      ]_vars

\* Body answered continue and the header of the next message was delivered to
\* the instance that had received Body
C9_Witness ==
    /\ hist.bodyResp = ActContinue /\ hist.bodyBackend = 1
    /\ cb.name = "Header" /\ cb.backend = 1 /\ cb.n = 2

\* C10: message-scoped state does not leak across messages.  The header
\* collection passed to the Headers callback holds only the headers streamed
\* since the last end-of-body terminal action other than continue (or Abort),
\* and once such a terminal action has been emitted no later callback sees
\* the macros of the message it ended.
C10_NoLeakAcrossMessages ==
    /\ cb.name = "Headers" => cb.args[1] = hist.msgHeaders
    /\ (hist.oldMacros /\ cb.name # "Body") => cb.mod.Macros = EmptyMap

\* C11: skip handling.  When OptSkip is negotiated and the reply a BodyChunk
\* call reads is the skip action, that call returns an Action with code skip
\* and no error; BodyReadFrom then sends no further chunk and does not return
\* before End has read its reply (it still sends EndOfBody and returns what
\* End returns).
C11_SkipHandling ==
    (ProtocolOption("OptSkip") /\ lastRead.code = ActSkip /\ lastRead.op = "BodyChunk") =>
        /\ (ret.op = "BodyChunk" /\ cpc # "readAction") =>
                ret.code = ActSkip /\ ret.err = "nil"
        /\ ret.op # "BodyReadFrom"

\* the BodyChunk called by BodyReadFrom has returned a terminal action other
\* than continue and skip
EarlyExit ==
    /\ cpc = "BodyReadFrom" /\ reader.pc = "chunk"
    /\ ret.err = "nil" /\ ret.code \notin {ActContinue, ActSkip}

\* C12: BodyReadFrom early exit.  When the reply to a body chunk is a terminal
\* action other than continue and skip, the next step of BodyReadFrom is its
\* return, with exactly that action (code, SMTP code and text), no modify
\* actions and no error; the client writes no packet (no further Body, no
\* EndOfBody) in between.
C12_BodyReadFromEarlyExit ==
    [][EarlyExit =>
            /\ Len(c2s') <= Len(c2s)
            /\ cpc' # cpc =>
                  /\ cpc' = "idle"
                  /\ ret' = [ret EXCEPT !.op = "BodyReadFrom"]
                  /\ ret'.code = lastRead.code /\ ret'.mods = <<>> /\ ret'.err = "nil"
      ]_vars

\* BodyReadFrom has returned the reply code 550 that answered its first body
\* chunk: one Body packet was written and processed, no EndOfBody followed
C12_Witness ==
    /\ cpc = "idle" /\ ret.op = "BodyReadFrom" /\ ret.err = "nil"
    /\ ret.code = ActReplyCode /\ ret.SMTPCode = 550 /\ ret.mods = <<>>
    /\ lastRead.op = "BodyChunk" /\ lastRead.cmd = CodeBody
    /\ cSeq = 1 /\ sSeq = 1 /\ c2s = <<>>

\* the payloads, in send order, are consecutive pieces of the content from
\* its first byte on
Contiguous(sent) ==
    \A i \in 1..Len(sent) :
        sent[i][1] = IF i = 1 THEN 0 ELSE sent[i - 1][1] + ByteLen(sent[i - 1])

\* the number of content bytes the payloads reach
Total(sent) == IF sent = <<>> THEN 0 ELSE Last(sent)[1] + ByteLen(Last(sent))

\* C13: body chunk bound and completeness.  Every Body packet BodyReadFrom
\* writes carries between 1 and 65535 payload bytes; when the body is not
\* suppressed and BodyReadFrom has got past its last chunk (every chunk reply
\* was continue) and has written EndOfBody, the concatenation of the payloads
\* in send order is the reader's content and exactly one EndOfBody packet was
\* written.
C13_BodyChunkBoundAndCompleteness ==
    /\ \A i \in 1..Len(reader.sent) :
          ByteLen(reader.sent[i]) >= 1 /\ ByteLen(reader.sent[i]) <= MaxBodyChunk
    /\ (reader.pc = "end" /\ cpc = "readModifyActs" /\ ~ProtocolOption("OptNoBody")) =>
          /\ Contiguous(reader.sent)
          /\ Total(reader.sent) = reader.size
          /\ reader.eob = 1

\* this step is a call of BodyChunk by the application with a chunk of more
\* than MaxBodyChunk bytes
OversizedCall ==
    /\ cmds' = cmds + 1 /\ ret'.op = "BodyChunk"
    /\ ByteLen(lastChunk') > MaxBodyChunk

\* this step of the client neither writes to the transport nor reads from it
\* nor waits for a reply
OffTheWire == c2s' = c2s /\ s2c' = s2c /\ cSeq' = cSeq /\ cTerm' = cTerm /\ cpc' = cpc

\* C14 as stated: for every negotiated protocol mask, BodyChunk called with
\* more than 65535 bytes returns an error (never a continue action), writes
\* nothing and reads nothing.
C14_OversizedChunkAlwaysFails ==
    [][OversizedCall => (ret'.err # "nil" /\ ret'.code # ActContinue /\ OffTheWire)]_vars

\* C14 amended: BodyChunk called with more than 65535 bytes never writes to
\* the transport and never reads from it, and leaves the abort-needed flag
\* alone; it returns the "too big body chunk" error when OptNoBody is not
\* negotiated, and the synthetic continue with a nil error when it is (the
\* suppression check comes before the size check).
C14_OversizedChunkOffTheWire ==
    [][OversizedCall =>
            /\ OffTheWire
            /\ needAbort' = needAbort
            /\ ret' = IF ProtocolOption("OptNoBody")
                      THEN Synthetic("BodyChunk")
                      ELSE Failed("BodyChunk", "too big body chunk")
      ]_vars

\* an oversized BodyChunk has failed in a session that had a reply-bearing
\* command answered before: nothing of the chunk is on the wire
C14_Witness ==
    /\ ret = Failed("BodyChunk", "too big body chunk")
    /\ ByteLen(lastChunk) = MaxBodyChunk + 1
    /\ ~ProtocolOption("OptNoBody")
    /\ cpc = "idle" /\ c2s = <<>> /\ s2c = <<>> /\ cSeq = 1 /\ cTerm = 1

\* the methods a protocol bit suppresses, and the bit of each
Suppressible == {"Conn", "Helo", "Mail", "Rcpt", "HeaderField", "HeaderEnd", "BodyChunk"}

NoCommandBit(op) ==
    CASE op = "Conn" -> "OptNoConnect" [] op = "Helo" -> "OptNoHelo"
      [] op = "Mail" -> "OptNoMailFrom" [] op = "Rcpt" -> "OptNoRcptTo"
      [] op = "HeaderField" -> "OptNoHeaders" [] op = "HeaderEnd" -> "OptNoEOH"
      [] op = "BodyChunk" -> "OptNoBody" [] OTHER -> "none"

\* this step is a call of the method op, by the application or (BodyChunk) by
\* BodyReadFrom
CallOf(op) ==
    /\ ret'.op = op
    /\ \/ cmds' = cmds + 1
       \/ op = "BodyChunk" /\ cpc = "BodyReadFrom" /\ reader'.off > reader.off

\* C15: command suppression leaves the wire untouched.  When the negotiated
\* protocol mask has the suppression bit of Conn, Helo, Mail, Rcpt,
\* HeaderField, HeaderEnd or BodyChunk set, a call of that method returns
\* Action continue with a nil error, writes no packet, reads no packet and
\* leaves the abort-needed flag and both masks unchanged.
C15_SuppressionOffTheWire ==
    [][\A op \in Suppressible :
          (CallOf(op) /\ ProtocolOption(NoCommandBit(op))) =>
              /\ ret' = Synthetic(op)
              /\ OffTheWire
              /\ needAbort' = needAbort
              /\ ActionOpts' = ActionOpts /\ ProtocolOpts' = ProtocolOpts
      ]_vars

\* three suppressed calls in a row, the last one HeaderEnd: nothing but the
\* negotiation ever went over the wire and the abort-needed flag is still set
C15_Witness ==
    /\ ProtocolOption("OptNoEOH")
    /\ ret = Synthetic("HeaderEnd") /\ cmds = 3 /\ cpc = "idle"
    /\ c2s = <<>> /\ s2c = <<>> /\ cSeq = 0 /\ sSeq = 0 /\ cTerm = 0
    /\ needAbort

\* negotiation has succeeded on this session
Negotiated == cpc \notin {"new", "negotiate", "failed"}

\* C16: the abort-needed flag.  It is false before negotiation and while
\* negotiation has not succeeded; once negotiation has succeeded it is true
\* exactly as long as no terminal action other than continue has been
\* received by a client operation, the terminal action returned by End
\* included (stated for handlers that use the Modifier in Body only, so that
\* every packet a command method reads is a terminal action).
C16_AbortNeededFlag ==
    /\ ~Negotiated => ~needAbort
    /\ (Negotiated /\ ~hist.modOutside) => (needAbort <=> ~lastRead.verdict)

\* this step is a call of Close
CallsClose == cpc = "idle" /\ ret'.op = "Close"

\* the packets this step puts on the client-to-server stream
WrittenByClient ==
    IF Len(c2s') > Len(c2s) THEN SubSeq(c2s', Len(c2s) + 1, Len(c2s')) ELSE <<>>

\* Abort (when the flag is set) then Quit, less the packets whose write failed
CloseSequences ==
    LET A == Message(CodeAbort, <<>>)
        Q == Message(CodeQuit, <<>>)
    IN  IF needAbort THEN {<<A, Q>>, <<A>>, <<Q>>, <<>>} ELSE {<<Q>>, <<>>}

\* C17: the client Close sequence.  Close writes Abort followed by Quit when
\* the abort-needed flag is set and only Quit when it is clear (a packet whose
\* write fails is missing from the wire), and the transport is closed when
\* Close returns; nothing is written after Close.
C17_CloseSequence ==
    [][/\ CallsClose =>
            /\ WrittenByClient \in CloseSequences
            /\ ret'.err = "nil" =>
                  (WrittenByClient # <<>> /\ Last(WrittenByClient).code = CodeQuit)
            /\ cpc' = "closed"
       /\ ret.op = "Close" => Len(c2s') <= Len(c2s)
      ]_vars

\* C19: modify-action list fidelity.  When End has returned without error
\* (the handler using the Modifier in Body only), the terminal action it
\* returns is the one the server wrote for this EndOfBody, with the code of
\* the response the Body callback returned, and the list it returns holds
\* exactly the modify actions that callback emitted, in emission order, each
\* with the code, header index, name, value or reason it was emitted with.
C19_ModifyActionListFidelity ==
    (ret.op = "End" /\ ret.err = "nil" /\ ~hist.modOutside) =>
        /\ lastRead.cmd = CodeEOB /\ lastRead.re = lastRead.want
        /\ ret.code = hist.bodyResp
        /\ [i \in 1..Len(ret.mods) |-> Emitted(ret.mods[i])] = hist.bodyMods

\* C20: a handler error is session-fatal.  The iteration in which a callback
\* returns a non-nil error writes no response packet of the driver for that
\* command and ends the session driver, which closes the transport; after
\* that no callback is invoked and nothing more is written on that session.
C20_HandlerErrorIsFatal ==
    [][/\ (~hist.cbErr /\ hist'.cbErr) =>
            /\ spc' = "closed"
            /\ \A i \in (Len(s2c) + 1)..Len(s2c') : s2c'[i].by # ""
       /\ hist.cbErr => (spc = "closed" /\ spc' = "closed" /\ ~Invokes
                          /\ Len(s2c') <= Len(s2c))
      ]_vars

\* the Header callback has written a modify action and returned an error: its
\* packet is the only one on the wire and the session has ended
C20_Witness ==
    /\ hist.cbErr /\ spc = "closed"
    /\ cb.name = "Header"
    /\ Len(s2c) = 1 /\ s2c[1].by = "Header" /\ s2c[1].code = ActAddHeader

\* C18: Server shutdown is reported as ErrServerClosed. When Close is called
\* while Serve(ln) is blocked in Accept, Close has closed ln by the time it
\* returns, and a Serve whose listener Close has closed returns
\* ErrServerClosed, not the accept error; when Accept fails and Close has
\* never been called, Serve returns the accept error itself.
C18_ShutdownReportedAsServerClosed ==
    /\ closing.pc = "returned" => \A ln \in closing.blocked : ~serving[ln].open
    /\ \A ln \in closing.blocked :
          (serving[ln].pc = "returned" /\ (\E j \in 1..(closing.i - 1) : closing.snap[j] = ln))
              => serving[ln].result = "ErrServerClosed"
    /\ closing.pc = "none" =>
          \A ln \in Listeners : serving[ln].pc = "returned" => serving[ln].result = "accept error"

\* the codes Process has a case for
KnownCodes ==
    {CodeAbort, CodeBody, CodeConn, CodeMacro, CodeEOB, CodeHelo, CodeHeader, CodeMail,
     CodeEOH, CodeOptNeg, CodeQuit, CodeRcpt, CodeData}

\* this step is one iteration of the session driver, on a packet it has read
Reads == spc = "running" /\ c2s # <<>> /\ c2s' = Tail(c2s)

\* this step leaves the transport and the handler alone
Silent == s2c' = s2c /\ cb' = cb

\* C21: session termination.  The session driver returns (and closes its
\* transport) when it reads Quit, QuitNewConn or a code it does not know, and
\* when its frame read fails; it writes no reply then, and once it has
\* returned it stays returned, invokes no callback and writes nothing.
C21_SessionTermination ==
    [][/\ (Reads /\ (Head(c2s).code \in {CodeQuit, CodeQuitNewConn}
                      \/ Head(c2s).code \notin KnownCodes))
           => (spc' = "closed" /\ Silent)
       /\ (spc = "running" /\ c2s = <<>> /\ cpc = "closed" /\ spc' # spc)
           => (spc' = "closed" /\ Silent)
       /\ spc = "closed" => (spc' = "closed" /\ Silent)]_vars

\* the session has returned on QuitNewConn while the peer is still there, and
\* a command that would invoke a callback is left unread
C21_Witness ==
    /\ spc = "closed"
    /\ hist.last = CodeQuitNewConn
    /\ cpc = "peer"
    /\ c2s # <<>>
    /\ Head(c2s).code \in CallbackCodes

\* the mapping a sequence of names and values stands for: each name with the
\* string after it, the empty string when there is none
PairsOf(kv) ==
    [k \in {kv[i] : i \in {j \in 1..Len(kv) : j % 2 = 1}} |->
        LET i == CHOOSE j \in 1..Len(kv) :
                    /\ j % 2 = 1 /\ kv[j] = k
                    /\ \A l \in (j + 1)..Len(kv) : ~(l % 2 = 1 /\ kv[l] = k)
        IN  IF i + 1 <= Len(kv) THEN kv[i + 1] ELSE <<>>]

\* C22: a Macros packet produces no reply and invokes no callback; it
\* replaces the session's macro mapping with exactly the name/value pairs of
\* the packet (an odd number of strings padded with one empty value, the
\* entries of earlier packets dropped) and changes nothing else: headers,
\* handler, masks and the position of the driver stay as they are.
C22_MacrosPacket ==
    [][\A kv \in PeerMacros :
         (Reads /\ Head(c2s) = Message(CodeMacro, appendCStrings(<<72>>, kv)))
            => /\ Silent
               /\ macros' = PairsOf(kv)
               /\ UNCHANGED <<headers, backend, newMilterCalls, actions, protocol, spc>>]_vars

\* textproto.MIMEHeader.Values: the values of a name, none when it is absent
MIMEHeaderValues(h, key) ==
    IF CanonicalMIMEHeaderKey(key) \in DOMAIN h THEN h[CanonicalMIMEHeaderKey(key)] ELSE <<>>

\* the payload is a name followed by two NUL bytes
EmptyValueHeader(data) ==
    /\ Len(data) >= 2
    /\ data[Len(data)] = NUL
    /\ data[Len(data) - 1] = NUL
    /\ \A i \in 1..(Len(data) - 2) : data[i] # NUL

\* C23: a Header packet whose payload is a name followed by two NUL bytes
\* invokes the Header callback with that name and the empty string and adds
\* one empty string to the values of that name in the accumulated headers (a
\* name not seen before then has exactly one value, the empty string); the
\* Headers callback at EndOfHeaders is handed the accumulated headers.
C23_EmptyValueHeader ==
    [][/\ (Reads /\ Head(c2s).code = CodeHeader /\ EmptyValueHeader(Head(c2s).data))
           => LET name == SubSeq(Head(c2s).data, 1, Len(Head(c2s).data) - 2)
              IN  /\ cb'.n = cb.n + 1
                  /\ cb'.name = "Header"
                  /\ cb'.args = <<name, <<>>>>
                  /\ MIMEHeaderValues(headers', name)
                        = MIMEHeaderValues(headers, name) \o << <<>> >>
       /\ (Reads /\ Head(c2s).code = CodeEOH)
           => (cb'.n = cb.n + 1 /\ cb'.name = "Headers" /\ cb'.args = <<headers>>)]_vars

\* Headers has been called with a collection in which the name B has one
\* value, the empty string
C23_Witness ==
    /\ cb.name = "Headers"
    /\ MIMEHeaderValues(cb.args[1], <<66>>) = << <<>> >>

\* the Connect payloads of family '4' or '6' whose port and address part is
\* empty or malformed: fewer than two port bytes, no address, the empty
\* address, an address that is no IP address
BadConnData ==
    {d \in PeerConnData :
        LET rest == Drop(d, 3)
        IN  \/ Len(rest) < 2
            \/ Drop(rest, 2) \in {<<>>, <<NUL>>, <<120, NUL>>}}

\* C25: a Connect packet of family '4' or '6' with an empty or malformed port
\* and address part, read while the peer is still connected, is answered with
\* TempFail, and the Connect callback is not invoked.
C25_ConnectDecodingErrors ==
    [][\A d \in BadConnData :
         (Reads /\ cpc = "peer" /\ Head(c2s) = Message(CodeConn, d))
            => /\ cb' = cb
               /\ Len(s2c') = Len(s2c) + 1
               /\ Last(s2c').code = ActTempFail]_vars

\* the replies to OPTNEG that carry the code, three words and a version of at
\* least 2
GoodReplies ==
    {Message(CodeOptNeg, <<2, {"OptAddHeader"}, {}>>),
     Message(CodeOptNeg, <<6, {"OptQuarantine"}, {"OptNoHeloReply"}>>)}

\* this step is negotiate reading the reply
ReadsReply == cpc = "negotiate" /\ s2c # <<>> /\ s2c' = Tail(s2c)

\* C24: negotiation outcome.  negotiate fails with its error when the reply
\* has another code than OPTNEG, fewer than three words (12 bytes) or a
\* version below 2, and succeeds otherwise, a version 6 milter included; a
\* session that is not negotiated never has the abort-needed flag set, is
\* never handed to the application (no call is made on it) and, once failed,
\* stays failed until the transport is dropped.
C24_NegotiationOutcome ==
    [][/\ ReadsReply =>
            LET msg == Message(Head(s2c).code, Head(s2c).data)
            IN  IF msg \in GoodReplies
                THEN /\ cpc' = "idle"
                     /\ ret'.err = "nil"
                     /\ needAbort'
                     /\ ActionOpts' = msg.data[2]
                     /\ ProtocolOpts' = msg.data[3]
                ELSE /\ cpc' = "failed"
                     /\ ret' = Failed("Session", "negotiate")
                     /\ UNCHANGED <<needAbort, ActionOpts, ProtocolOpts>>
       /\ cpc \in {"new", "negotiate", "failed"} =>
            /\ ~needAbort
            /\ cmds' = cmds /\ cmds = 0
            /\ cSeq' = cSeq
            /\ Len(c2s') > Len(c2s) => (cpc = "new" /\ Last(c2s').code = CodeOptNeg)
       /\ cpc = "failed" => cpc' \in {"failed", "closed"}]_vars

\* negotiation has failed on a reply of a milter
C24_Witness ==
    /\ cpc = "failed"
    /\ ret = Failed("Session", "negotiate")
    /\ spc = "foreign"

\* what the Connect callback is to receive for the arguments of a Conn call
ConnectArgs(in) ==
    <<in[1],
      CASE in[2] = 85 -> "unknown" [] in[2] = 76 -> "unix" [] in[2] = 52 -> "tcp4"
        [] in[2] = 54 -> "tcp6",
      IF in[2] \in {52, 54} THEN in[3] ELSE 0,
      IF in[2] = 85 THEN <<>> ELSE ParseIP(in[4])>>

\* C26: Connect round trip.  The packet of Conn(host, family, port, addr),
\* once read by the server, invokes the Connect callback exactly once, with
\* the same host, the name of the family, the port for the families '4' and
\* '6' and 0 otherwise, and the parsed address; for the family U the packet
\* holds the host and the family byte only.
C26_ConnectRoundTrip ==
    [][/\ \A in \in ConnCases :
            (Reads /\ Head(c2s) = Message(CodeConn, ConnData(in[1], in[2], in[3], in[4])))
               => /\ cb'.n = cb.n + 1
                  /\ cb'.name = "Connect"
                  /\ cb'.args = ConnectArgs(in)
       /\ (ret'.op = "Conn" /\ Len(c2s') > Len(c2s))
            => LET data == Last(c2s').data
                   host == readCString(data)
               IN  data[Len(host) + 2] = 85 => Len(data) = Len(host) + 2]_vars

\* the Connect callback has received a host, tcp6, the port 65535 and the
\* address ::1, and the client has read the reply
C26_Witness ==
    /\ cb.name = "Connect"
    /\ cb.args = <<<<104>>, "tcp6", 65535, [i \in 1..16 |-> IF i = 16 THEN 1 ELSE 0]>>
    /\ ret.op = "Conn"
    /\ ret.code = ActContinue
    /\ cpc = "idle"

\* the packets read are the packets written, in order, and the stream is
\* used up exactly when all of them are read
ReadBack ==
    /\ wire.err = "nil"
    /\ Len(wire.read) <= Len(wire.written)
    /\ \A i \in 1..Len(wire.read) : wire.read[i] = wire.written[i]
    /\ wire.stream = <<>> <=> Len(wire.read) = Len(wire.written)

\* C27 as stated: framing round trip, for every packet.  Whatever packets are
\* written to a stream, readPacket reads them back with the same code and
\* payload, in order, with no bytes left over or shared.
C27_FramingRoundTrip == ReadBack

\* C27, amended: the same for packets whose payload has at most 2^32 - 2
\* bytes.
C27_FramingRoundTripBounded ==
    (\A i \in 1..Len(wire.written) : Leq(Size(wire.written[i].data), <<65535, 65534>>))
        => ReadBack

\* two packets have been read back, one of them with a payload of 2^32 - 2
\* bytes, and the stream is used up
C27_Witness ==
    /\ Len(wire.read) = 2
    /\ wire.read = wire.written
    /\ wire.stream = <<>>
    /\ \E i \in 1..2 : Size(wire.read[i].data) = <<65535, 65534>>
    /\ \E i \in 1..2 : wire.read[i].data = FromBytes(<<0, 0, 0, 1>>)

\* C28: C-string round trip.  decodeCStrings of the buffer made by
\* appendCString over any sequence of NUL-free strings, empty strings
\* included, gives back that sequence; the empty buffer gives the empty
\* sequence.
C28_CStringRoundTrip == codec.pc = "decoded" => codec.out = codec.ss

\* C29: shutdown reaches in-flight sessions.  After Server.Close has closed
\* the listeners and returned, a session that was already accepted gets
\* end-of-stream on its next frame read and its driver terminates: none of
\* them processes another frame.
C29_ShutdownReachesSessions == ~closing.late

\* a message is in progress: the application is past Mail with no End,
\* BodyReadFrom or Abort called since, no call has failed, and the server
\* has read everything the client wrote, a Mail command included, with no
\* EndOfBody or Abort after it
MessageInProgress ==
    /\ stage >= StageOf("Mail")
    /\ ret.err = "nil"
    /\ c2s = <<>>
    /\ hist.inMessage

\* C30: Close aborts a sequence in progress.  Whenever Close is called while
\* a message is in progress (Mail has been sent and neither End nor Abort has
\* completed since) and the transport is open, an Abort packet is written
\* before Quit, also when an earlier command of the session received a
\* non-continue action.
C30_CloseAbortsSequenceInProgress ==
    [][(CallsClose /\ MessageInProgress /\ spc = "running") =>
          WrittenByClient = <<Message(CodeAbort, <<>>), Message(CodeQuit, <<>>)>>
      ]_vars

\* C31: Abort callback ordering.  On an Abort packet the Abort callback is
\* invoked with the macros and accumulated headers as they were before the
\* abort; the server clears them after the callback has returned, also when
\* the callback returns an error.
C31_AbortCallbackOrdering ==
    [][(ProcessesAbort /\ spc = "running") =>
          /\ Invokes
          /\ cb'.name = "Abort"
          /\ cb'.mod = newModifier(macros, headers)
          /\ macros' = EmptyMap /\ headers' = EmptyMap
      ]_vars

\* an Abort callback that was handed macros has returned an error, and the
\* session it ended has no macros and no headers left
C31_Witness ==
    /\ cb.name = "Abort"
    /\ cb.mod.Macros # EmptyMap
    /\ hist.cbErr /\ spc = "closed"
    /\ macros = EmptyMap /\ headers = EmptyMap

\* this step is readAction or readModifyActs reading a packet
ReadsPacket == cpc \in {"readAction", "readModifyActs"} /\ s2c # <<>> /\ s2c' = Tail(s2c)

\* C32: progress frames are transparent.  In readAction and readModifyActs a
\* progress ('p') packet, at any position before the terminal action, is
\* discarded: reading it changes neither the pending result, nor the
\* modify-action list, nor the abort-needed flag, and the method goes on
\* reading; it is never returned as the action and never appended to the
\* modify-action list, so the result is the one for the same packet stream
\* without the 'p' packets.
C32_ProgressTransparent ==
    [][ReadsPacket =>
          /\ Head(s2c).code = "p" =>
                (cpc' = cpc /\ ret' = ret /\ needAbort' = needAbort
                 /\ modifyActs' = modifyActs)
          /\ ret'.code # "p"
          /\ \A i \in 1..Len(modifyActs') : modifyActs'[i].Code # "p"
          /\ \A i \in 1..Len(ret'.mods) : ret'.mods[i].Code # "p"
      ]_vars

\* End has returned the modify action and the accept that the milter wrote
\* with a progress packet before each
C32_Witness ==
    /\ spc = "foreign"
    /\ cpc = "idle"
    /\ ret.op = "End" /\ ret.err = "nil" /\ ret.code = ActAccept
    /\ Len(ret.mods) = 1 /\ ret.mods[1].Code = ActAddHeader
    /\ s2c = <<>>

\* the values of the pairs of a sequence whose name is k, in order
ValuesOf(pairs, k) ==
    LET sel == SelectSeq(pairs, LAMBDA kv : CanonicalMIMEHeaderKey(kv[1]) = k)
    IN  [i \in 1..Len(sel) |-> sel[i][2]]

\* the collection holds exactly the pairs, per name and in order
Accumulates(h, pairs) ==
    /\ DOMAIN h = {CanonicalMIMEHeaderKey(pairs[i][1]) : i \in 1..Len(pairs)}
    /\ \A k \in DOMAIN h : h[k] = ValuesOf(pairs, k)

\* this step is an iteration of HandleMilterCommands on a packet of this code
Processes(code) ==
    spc = "running" /\ c2s # <<>> /\ Head(c2s).code = code /\ c2s' = Tail(c2s)

C34_DataNoReply ==
    [][Processes(CodeData) => (cb' = cb /\ s2c' = s2c)]_vars

\* C34, amended: on a Data (T) packet the server invokes no handler callback
\* and the response is continue: one continue packet is written for T (none
\* when the write fails on a transport the peer has closed, which ends the
\* session), and the handler instance stays.
C34_DataContinues ==
    [][Processes(CodeData) =>
          /\ cb' = cb
          /\ backend' = backend
          /\ \/ /\ Len(s2c') = Len(s2c) + 1
                /\ SubSeq(s2c', 1, Len(s2c)) = s2c
                /\ Last(s2c').code = ActContinue /\ Last(s2c').cmd = CodeData
                /\ spc' = "running"
             \/ /\ cpc = "closed"
                /\ s2c' = s2c
                /\ spc' = "closed"
      ]_vars

\* the server has answered a Data packet
C34_Witness ==
    /\ hist.last = CodeData
    /\ s2c # <<>>
    /\ Last(s2c).cmd = CodeData /\ Last(s2c).code = ActContinue
    /\ cb.name # "none"

\* the stream starts with a length prefix of 0
ZeroLengthFrame ==
    LET h == Take(wire.stream, Num(4))
    IN  h.ok /\ Uint32(ToBytes(h.taken)) = Num(0)

\* C35: zero-length frame.  readPacket on a frame whose length prefix is 0
\* returns a protocol error to its caller; it yields no packet and does not
\* crash the process.
C35_ZeroLengthFrame ==
    [][(wire.err = "nil" /\ ZeroLengthFrame /\ wire' # wire
        /\ wire'.written = wire.written /\ wire'.raw = wire.raw) =>
          /\ wire'.err \notin {"nil", "panic"}
          /\ wire'.read = wire.read
      ]_vars

\* the packets the client puts on the wire in this step
Sends(q) == c2s' = c2s \o q

\* C36: the Header helper.  Header calls HeaderField on the fields of the
\* header in order, one call each; at the first field whose action is not
\* continue it returns that action and calls neither HeaderField on the
\* remaining fields nor HeaderEnd; if all fields get continue it calls
\* HeaderEnd exactly once and returns its action.  (A call whose command is
\* suppressed by negotiation sends nothing and gets the synthetic continue.)
C36_HeaderHelper ==
    [][/\ (cpc = "Header" /\ reader'.off = reader.off + 1) =>
            /\ reader.pc = "field" => (ret.err = "nil" /\ ret.code = ActContinue)
            /\ reader.eob = 0
            /\ LET f == HeaderFields[reader.off + 1]
                   pkt == Message(CodeHeader, f[1] \o <<NUL>> \o f[2] \o <<NUL>>)
               IN  IF ProtocolOption("OptNoHeaders") THEN Sends(<<>>) ELSE Sends(<<pkt>>)
       /\ (cpc = "Header" /\ reader'.eob = reader.eob + 1) =>
            /\ reader.pc = "field" => (ret.err = "nil" /\ ret.code = ActContinue)
            /\ reader.eob = 0 /\ reader.off = reader.size
            /\ IF ProtocolOption("OptNoEOH") THEN Sends(<<>>)
               ELSE Sends(<<Message(CodeEOH, <<>>)>>)
       /\ (cpc = "Header" /\ cpc' = "idle") =>
            /\ ret' = [ret EXCEPT !.op = "Header"]
            /\ Sends(<<>>)
            /\ \/ reader.eob = 1 /\ reader.off = reader.size /\ ret.op = "HeaderEnd"
               \/ reader.eob = 0 /\ ret.op = "HeaderField"
                    /\ (ret.err # "nil" \/ ret.code # ActContinue)
       /\ (cpc = "Header" /\ reader.pc = "field" /\ ret.err = "nil"
           /\ ret.code # ActContinue) => Len(c2s') <= Len(c2s)
      ]_vars

\* Header has returned the accept that the milter gave to the first of two
\* fields: the second field and EndOfHeaders were not sent
C36_Witness ==
    /\ cpc = "idle"
    /\ ret.op = "Header" /\ ret.err = "nil" /\ ret.code = ActAccept
    /\ cSeq = 1
    /\ hist.last = CodeHeader
    /\ c2s = <<>>

\* Header has returned the action of EndOfHeaders after two fields
C36_WitnessAllFields ==
    /\ cpc = "idle"
    /\ ret.op = "Header" /\ ret.err = "nil"
    /\ cSeq = 3
    /\ hist.last = CodeEOH

\* C37: the Serve / Close race.  For every interleaving of a Serve(ln) call
\* and a Close call on the same Server, Close completing before Serve has
\* registered its listener included: no listener is open with its Serve in
\* the accept loop once Close has returned.
C37_ServeCloseRace ==
    closing.pc = "returned" =>
        \A ln \in Listeners : ~(serving[ln].pc = "accept" /\ serving[ln].open)

\* the session that is not running has been accepted
BothAccepted == spc # "listening" /\ parked.spc # "listening"

\* C38: session isolation.  Sessions of different accepted transports run
\* concurrently, each with its own handler obtained from the factory at
\* accept time, and share no session state: for every interleaving, a
\* command processed on one session never changes the macros, accumulated
\* headers, masks or handler instance of another session, the callbacks of a
\* session run on its own handler, and no two sessions have the same handler.
C38_SessionIsolation ==
    [][/\ parked'.id = parked.id => parked' = parked
       /\ (parked'.id = parked.id /\ spc = "listening" /\ spc' = "running") =>
            /\ newMilterCalls' = newMilterCalls + 1
            /\ backend' = newMilterCalls'
            /\ backend' # parked.backend
       /\ (parked'.id = parked.id /\ cb'.n # cb.n) =>
            /\ cb'.backend = backend
            /\ parked.spc # "listening" => cb'.backend # parked.backend
       /\ BothAccepted' => backend' # parked'.backend
      ]_vars

\* both sessions are running with macros and headers of their own, and the
\* running one has had its handler replaced after a message while the
\* other still has the handler of its accept
C38_Witness ==
    /\ spc = "running" /\ parked.spc = "running"
    /\ macros # EmptyMap /\ parked.macros = EmptyMap
    /\ parked.headers # EmptyMap /\ headers = EmptyMap
    /\ backend = 3 /\ parked.backend \in {1, 2}

\* the Header payloads that decode to no string or to more than two
MalformedHeaders == {d \in PeerHeaderData : Len(decodeCStrings(d)) \notin {1, 2}}

\* C39: a malformed Header packet.  When a Header payload decodes to zero
\* strings or to more than two strings, the server (its peer still
\* connected) does not invoke the Header callback, leaves the accumulated
\* headers unchanged, replies continue and keeps the session running.
C39_MalformedHeaderPacket ==
    [][\A d \in MalformedHeaders :
         (Reads /\ cpc = "peer" /\ Head(c2s) = Message(CodeHeader, d))
            => /\ cb' = cb
               /\ headers' = headers
               /\ Len(s2c') = Len(s2c) + 1
               /\ Last(s2c').code = ActContinue
               /\ spc' = "running"
               /\ UNCHANGED <<macros, backend, newMilterCalls>>]_vars

\* a Header packet of three strings was read after a well-formed one: the
\* headers hold the well-formed one only and the session runs
C39_Witness ==
    /\ spc = "running"
    /\ hist.last = CodeHeader
    /\ cb.name = "Header" /\ cb.n = 1
    /\ sSeq = 2
    /\ Len(s2c) = 2 /\ s2c[2].code = ActContinue
    /\ s2c[1].cmd = CodeHeader /\ s2c[2].cmd = CodeHeader
    /\ DOMAIN headers = {<<66>>}
    /\ <<97, NUL, 98, NUL, 99, NUL>> \in MalformedHeaders

\* a Header packet with an empty payload was read and answered
C39_WitnessNoStrings ==
    /\ spc = "running"
    /\ hist.last = CodeHeader
    /\ cb.n = 0
    /\ sSeq = 1
    /\ Len(s2c) = 1 /\ s2c[1].code = ActContinue
    /\ headers = EmptyMap
    /\ <<>> \in MalformedHeaders

\* C40: Close releases the transport on failure.  ClientSession.Close closes
\* the transport also when the write of the Abort or of the Quit packet
\* fails; a failed Abort write does not prevent the Quit write (Close
\* returns nil whenever the Quit write succeeds, and Quit is then the last
\* packet written), and a failed Quit write is returned as the error of
\* Close.
C40_CloseReleasesOnFailure ==
    [][CallsClose =>
          /\ cpc' \notin {"idle", "closeFailed"}
          /\ \/ /\ ret' = Return("Close", "none", 0, <<>>, <<>>, "nil")
                /\ WrittenByClient # <<>>
                /\ Last(WrittenByClient) = Message(CodeQuit, <<>>)
             \/ /\ ret' = Failed("Close", "write")
                /\ \A i \in 1..Len(WrittenByClient) : WrittenByClient[i].code # CodeQuit
      ]_vars

====
